---- MODULE Spec2Model ----
(***************************************************************************)
(* Profile Metrics Engine of devhunt (src/analysis/metrics.ts,             *)
(* src/analysis/index.ts, src/analysis/nlp.ts, src/analysis/tags.ts).      *)
(*                                                                         *)
(* The engine is a set of pure functions over the records produced by the  *)
(* scan stage.  The state is the input of one invocation (options and the  *)
(* extra arguments of the functions that are called directly), the return  *)
(* value (ret) and the position of the call (pc).                          *)
(*                                                                         *)
(* Conventions.                                                            *)
(*  - A nullable value is null (the empty tuple) or a tuple: <<x>> for a   *)
(*    string or a count, <<n, d>> for the number n/d.                      *)
(*  - A timestamp string is an integer: the minutes since 00:00Z of day 0  *)
(*    when the string is parseable by Date, a negative integer otherwise.  *)
(*  - Math.log1p is kept in thousandths (Log1pMilli).                      *)
(***************************************************************************)
EXTENDS Integers, Sequences, FiniteSets, TLC

VARIABLES options, tzOffsetMinutes, hist, includeOrgRepos, pc, ret

vars == <<options, tzOffsetMinutes, hist, includeOrgRepos, pc, ret>>

(***************************************************************************)
(* Bounds of the model.                                                    *)
(***************************************************************************)
MaxRepos == 2
MaxPrs == 2
MaxCommits == 2

(***************************************************************************)
(* Values.                                                                 *)
(***************************************************************************)
null == <<>>

Some(x) == <<x>>

Range(s) == {s[i] : i \in 1..Len(s)}

SeqsUpTo(S, n) == UNION {[1..k -> S] : k \in 0..n}

\* String.prototype.toLowerCase on the login and name strings of the model.
ToLowerCase(s) ==
  CASE s = "Self" -> "self"
    [] s = "SELF" -> "self"
    [] s = "Other" -> "other"
    [] s = "Org" -> "org"
    [] s = "Lib" -> "lib"
    [] s = "TypeScript" -> "typescript"
    [] s = "JavaScript" -> "javascript"
    [] s = "Python" -> "python"
    [] s = "Go" -> "go"
    [] s = "Rust" -> "rust"
    [] s = "Java" -> "java"
    [] s = "PYTHON" -> "python"
    [] OTHER -> s

\* Math.log1p(stars) in thousandths, rounded.
Log1pMilli(stars) ==
  CASE stars = 0 -> 0
    [] stars = 1 -> 693
    [] stars = 2 -> 1099
    [] stars = 3 -> 1386
    [] stars = 4 -> 1609
    [] stars = 5 -> 1792
    [] stars = 10 -> 2398
    [] stars = 20 -> 3045
    [] stars = 50 -> 3932
    [] stars = 100 -> 4615

\* The number 1 in the unit of Log1pMilli.
OneMilli == 1000

(***************************************************************************)
(* Rationals n/d as <<n, d>>, d > 0.                                       *)
(***************************************************************************)
RatLt(a, b) == a[1] * b[2] < b[1] * a[2]

RatLe(a, b) == a[1] * b[2] <= b[1] * a[2]

RatEq(a, b) == a[1] * b[2] = b[1] * a[2]

(***************************************************************************)
(* Map<K, V> as the sequence of its entries in insertion order.            *)
(***************************************************************************)
MapIndex(m, k) ==
  IF \E i \in 1..Len(m) : m[i].key = k
    THEN CHOOSE i \in 1..Len(m) : m[i].key = k
    ELSE 0

MapHas(m, k) == MapIndex(m, k) # 0

MapGet(m, k, dflt) == IF MapHas(m, k) THEN m[MapIndex(m, k)].val ELSE dflt

MapSet(m, k, v) ==
  IF MapHas(m, k)
    THEN [m EXCEPT ![MapIndex(m, k)] = [key |-> k, val |-> v]]
    ELSE Append(m, [key |-> k, val |-> v])

\* Array.prototype.sort((a, b) => b.weight - a.weight): stable, descending.
RECURSIVE InsertByWeight(_, _)
InsertByWeight(sorted, x) ==
  IF sorted = <<>> THEN <<x>>
  ELSE IF RatLt(Head(sorted).weight, x.weight)
    THEN <<x>> \o sorted
    ELSE <<Head(sorted)>> \o InsertByWeight(Tail(sorted), x)

RECURSIVE SortByWeightDesc(_)
SortByWeightDesc(s) ==
  IF s = <<>> THEN <<>>
  ELSE InsertByWeight(SortByWeightDesc(SubSeq(s, 1, Len(s) - 1)), s[Len(s)])

(***************************************************************************)
(* computeLanguageWeights: primary language, weight log(1 + stars), a      *)
(* repository without stars weighs 1.                                      *)
(***************************************************************************)
RECURSIVE LanguageWeightsLoop(_, _)
LanguageWeightsLoop(rs, weights) ==
  IF rs = <<>> THEN weights
  ELSE LET repo == Head(rs)
           w == Log1pMilli(repo.stargazerCount)
           weight == IF w > 0 THEN w ELSE OneMilli
       IN IF repo.primaryLanguage = null
            THEN LanguageWeightsLoop(Tail(rs), weights)
            ELSE LET lang == repo.primaryLanguage[1]
                 IN LanguageWeightsLoop(Tail(rs),
                      MapSet(weights, lang, MapGet(weights, lang, 0) + weight))

RECURSIVE SumVals(_)
SumVals(m) == IF m = <<>> THEN 0 ELSE Head(m).val + SumVals(Tail(m))

\* computeLanguageWeights as before 0.0.9: a repository without stars is skipped.
ComputeLanguageWeights_SkipZeroStars(rs) ==
  LET starred == SelectSeq(rs, LAMBDA repo : Log1pMilli(repo.stargazerCount) > 0)
      entries == LanguageWeightsLoop(starred, <<>>)
      sum == SumVals(entries)
      total == IF sum = 0 THEN 1 ELSE sum
  IN SortByWeightDesc([i \in 1..Len(entries) |->
       [lang |-> entries[i].key, weight |-> <<entries[i].val, total>>]])

ComputeLanguageWeights(rs) ==
  LET entries == LanguageWeightsLoop(rs, <<>>)
      sum == SumVals(entries)
      total == IF sum = 0 THEN 1 ELSE sum
  IN SortByWeightDesc([i \in 1..Len(entries) |->
       [lang |-> entries[i].key, weight |-> <<entries[i].val, total>>]])

(***************************************************************************)
(* computeLanguageWeightsV2: languages.edges, weighted bytes.              *)
(* A repository's languages field is its edges; absent and empty are one   *)
(* case in the code (!languages || languages.length === 0).                *)
(***************************************************************************)
RECURSIVE SumSizes(_)
SumSizes(edges) == IF edges = <<>> THEN 0 ELSE Head(edges).size + SumSizes(Tail(edges))

RECURSIVE LangStatsEdges(_, _, _)
LangStatsEdges(edges, repoWeight, langStats) ==
  IF edges = <<>> THEN langStats
  ELSE LET edge == Head(edges)
           lang == edge.name
           weightedBytes == repoWeight * edge.size
           current == MapGet(langStats, lang, [total_bytes |-> 0, weighted_bytes |-> 0])
       IN LangStatsEdges(Tail(edges), repoWeight,
            MapSet(langStats, lang,
              [total_bytes |-> current.total_bytes + edge.size,
               weighted_bytes |-> current.weighted_bytes + weightedBytes]))

RECURSIVE LangStatsLoop(_, _)
LangStatsLoop(rs, langStats) ==
  IF rs = <<>> THEN langStats
  ELSE LET repo == Head(rs)
           languages == repo.languages
           repoWeight == Log1pMilli(repo.stargazerCount)
       IN IF languages = <<>> THEN LangStatsLoop(Tail(rs), langStats)
          ELSE IF repoWeight <= 0 THEN LangStatsLoop(Tail(rs), langStats)
          ELSE IF SumSizes(languages) = 0 THEN LangStatsLoop(Tail(rs), langStats)
          ELSE LangStatsLoop(Tail(rs), LangStatsEdges(languages, repoWeight, langStats))

RECURSIVE SumWeightedBytes(_)
SumWeightedBytes(m) ==
  IF m = <<>> THEN 0 ELSE Head(m).val.weighted_bytes + SumWeightedBytes(Tail(m))

ComputeLanguageWeightsV2(rs) ==
  LET entries == LangStatsLoop(rs, <<>>)
      sum == SumWeightedBytes(entries)
      totalWeightedBytes == IF sum = 0 THEN 1 ELSE sum
  IN SortByWeightDesc([i \in 1..Len(entries) |->
       [lang |-> entries[i].key,
        weight |-> <<entries[i].val.weighted_bytes, totalWeightedBytes>>,
        total_bytes |-> entries[i].val.total_bytes,
        weighted_bytes |-> entries[i].val.weighted_bytes]])

(***************************************************************************)
(* computeTopicWeights: repositoryTopics.nodes, each topic gets the whole  *)
(* repository weight.                                                      *)
(***************************************************************************)
RECURSIVE TopicStatsNodes(_, _, _)
TopicStatsNodes(topics, repoWeight, topicStats) ==
  IF topics = <<>> THEN topicStats
  ELSE LET topic == Head(topics)
           current == MapGet(topicStats, topic, [count |-> 0, weighted_count |-> 0])
       IN TopicStatsNodes(Tail(topics), repoWeight,
            MapSet(topicStats, topic,
              [count |-> current.count + 1,
               weighted_count |-> current.weighted_count + repoWeight]))

RECURSIVE TopicStatsLoop(_, _)
TopicStatsLoop(rs, topicStats) ==
  IF rs = <<>> THEN topicStats
  ELSE LET repo == Head(rs)
           topics == repo.repositoryTopics
           repoWeight == Log1pMilli(repo.stargazerCount)
       IN IF topics = <<>> THEN TopicStatsLoop(Tail(rs), topicStats)
          ELSE IF repoWeight <= 0 THEN TopicStatsLoop(Tail(rs), topicStats)
          ELSE TopicStatsLoop(Tail(rs), TopicStatsNodes(topics, repoWeight, topicStats))

RECURSIVE SumWeightedCount(_)
SumWeightedCount(m) ==
  IF m = <<>> THEN 0 ELSE Head(m).val.weighted_count + SumWeightedCount(Tail(m))

ComputeTopicWeights(rs) ==
  LET entries == TopicStatsLoop(rs, <<>>)
      sum == SumWeightedCount(entries)
      totalWeightedCount == IF sum = 0 THEN 1 ELSE sum
  IN SortByWeightDesc([i \in 1..Len(entries) |->
       [topic |-> entries[i].key,
        weight |-> <<entries[i].val.weighted_count, totalWeightedCount>>,
        count |-> entries[i].val.count,
        weighted_count |-> entries[i].val.weighted_count]])

(***************************************************************************)
(* computeFocusRatio: raw bytes per language, no star weighting.           *)
(***************************************************************************)
RECURSIVE LangBytesEdges(_, _)
LangBytesEdges(edges, langBytes) ==
  IF edges = <<>> THEN langBytes
  ELSE LET edge == Head(edges)
           prev == MapGet(langBytes, edge.name, 0)
       IN LangBytesEdges(Tail(edges), MapSet(langBytes, edge.name, prev + edge.size))

RECURSIVE LangBytesLoop(_, _)
LangBytesLoop(rs, langBytes) ==
  IF rs = <<>> THEN langBytes
  ELSE IF Head(rs).languages = <<>> THEN LangBytesLoop(Tail(rs), langBytes)
  ELSE LangBytesLoop(Tail(rs), LangBytesEdges(Head(rs).languages, langBytes))

RECURSIVE MaxVal(_, _)
MaxVal(m, maxBytes) ==
  IF m = <<>> THEN maxBytes
  ELSE MaxVal(Tail(m), IF Head(m).val > maxBytes THEN Head(m).val ELSE maxBytes)

ComputeFocusRatio(rs) ==
  LET langBytes == LangBytesLoop(rs, <<>>)
      totalBytes == SumVals(langBytes)
      maxBytes == MaxVal(langBytes, 0)
  IN IF totalBytes <= 0
       THEN [value |-> null, sample_size |-> 0]
       ELSE [value |-> <<maxBytes, totalBytes>>, sample_size |-> totalBytes]

(***************************************************************************)
(* Time.                                                                   *)
(***************************************************************************)
\* Number.isNaN(new Date(s).getTime())
\* A Date whose time is taken for a number whatever the string was.
IsNaNDate_Never(s) == FALSE

IsNaNDate(s) == s < 0

\* new Date(s).getUTCHours()
GetUTCHours(s) == (s \div 60) % 24

\* a % b of JavaScript: the result has the sign of a.
JsRem(a, b) == IF a >= 0 THEN a % b ELSE -((-a) % b)

\* Math.floor((utcHours + tzOffsetMinutes / 60 + 24 * 3) % 24) % 24, in minutes:
\* the fraction of an hour is a multiple of 1/60, so the floor of the double is
\* the floor of the exact quotient.
LocalHourIndex(utcHours, tzOffset) ==
  LET localMinutes == JsRem(utcHours * 60 + tzOffset + 24 * 3 * 60, 24 * 60)
  IN JsRem(localMinutes \div 60, 24)

Hours == 0..23

(***************************************************************************)
(* computeHoursHistogram.  An index outside 0..23 sets a property of the   *)
(* array object that is none of its 24 elements.                           *)
(***************************************************************************)
RECURSIVE HoursHistogramLoop(_, _, _)
HoursHistogramLoop(ps, tzOffset, buckets) ==
  IF ps = <<>> THEN buckets
  ELSE LET pr == Head(ps)
           idx == LocalHourIndex(GetUTCHours(pr.createdAt), tzOffset)
           prev == IF idx \in Hours /\ buckets[idx] # null THEN buckets[idx][1] ELSE 0
       IN IF IsNaNDate(pr.createdAt) THEN HoursHistogramLoop(Tail(ps), tzOffset, buckets)
          ELSE IF idx \in Hours
            THEN HoursHistogramLoop(Tail(ps), tzOffset,
                   [buckets EXCEPT ![idx] = Some(prev + 1)])
            ELSE HoursHistogramLoop(Tail(ps), tzOffset, buckets)

\* computeHoursHistogram starting from a histogram of zeros.
ComputeHoursHistogram_ZeroFill(ps, tzOffset) ==
  HoursHistogramLoop(ps, tzOffset, [h \in Hours |-> Some(0)])

ComputeHoursHistogram(ps, tzOffset) ==
  HoursHistogramLoop(ps, tzOffset, [h \in Hours |-> null])

(***************************************************************************)
(* computeCoreHours.                                                       *)
(***************************************************************************)
\* h.toString().padStart(2, "0") + ":00"
FormatHour(h) == IF h < 10 THEN "0" \o ToString(h) \o ":00" ELSE ToString(h) \o ":00"

BinOrZero(h, i) == IF h[i] = null THEN 0 ELSE h[i][1]

RECURSIVE HistTotal(_, _)
HistTotal(h, i) == IF i > 23 THEN 0 ELSE BinOrZero(h, i) + HistTotal(h, i + 1)

\* A descending sort that puts the later of two equal windows first.
RECURSIVE InsertByValue_LaterFirst(_, _)
InsertByValue_LaterFirst(sorted, x) ==
  IF sorted = <<>> THEN <<x>>
  ELSE IF Head(sorted).value <= x.value
    THEN <<x>> \o sorted
    ELSE <<Head(sorted)>> \o InsertByValue_LaterFirst(Tail(sorted), x)

\* pairs.sort((a, b) => b.value - a.value): stable, descending.
RECURSIVE InsertByValue(_, _)
InsertByValue(sorted, x) ==
  IF sorted = <<>> THEN <<x>>
  ELSE IF Head(sorted).value < x.value
    THEN <<x>> \o sorted
    ELSE <<Head(sorted)>> \o InsertByValue(Tail(sorted), x)

RECURSIVE SortByValueDesc(_)
SortByValueDesc(s) ==
  IF s = <<>> THEN <<>>
  ELSE InsertByValue(SortByValueDesc(SubSeq(s, 1, Len(s) - 1)), s[Len(s)])

\* computeCoreHours without the return on an empty histogram.
ComputeCoreHours_NoTotalCheck(h) ==
  LET pairs == [i \in 1..24 |->
                 [start |-> i - 1, end |-> i % 24,
                  value |-> BinOrZero(h, i - 1) + BinOrZero(h, i % 24)]]
      top == SubSeq(SortByValueDesc(pairs), 1, 2)
  IN [i \in 1..Len(top) |->
       [start |-> FormatHour(top[i].start), end |-> FormatHour(top[i].end)]]

ComputeCoreHours(h) ==
  LET total == HistTotal(h, 0)
      pairs == [i \in 1..24 |->
                 [start |-> i - 1, end |-> i % 24,
                  value |-> BinOrZero(h, i - 1) + BinOrZero(h, i % 24)]]
      top == SubSeq(SortByValueDesc(pairs), 1, 2)
  IN IF total = 0 THEN <<>>
     ELSE [i \in 1..Len(top) |->
            [start |-> FormatHour(top[i].start), end |-> FormatHour(top[i].end)]]

(***************************************************************************)
(* computeNightRatio.                                                      *)
(***************************************************************************)
NightHours == {22, 23, 0, 1, 2, 3, 4}

OrEmpty(list) == IF list = null THEN <<>> ELSE list[1]

RECURSIVE NightLoop(_, _, _, _)
NightLoop(cs, tzOffset, night, total) ==
  IF cs = <<>> THEN [night |-> night, total |-> total]
  ELSE LET c == Head(cs)
           hour == LocalHourIndex(GetUTCHours(c.authoredAt), tzOffset)
       IN IF c.isMerge THEN NightLoop(Tail(cs), tzOffset, night, total)
          ELSE IF IsNaNDate(c.authoredAt) THEN NightLoop(Tail(cs), tzOffset, night, total)
          ELSE NightLoop(Tail(cs), tzOffset,
                 IF hour \in NightHours THEN night + 1 ELSE night, total + 1)

ComputeNightRatio(cms, tzOffset) ==
  LET r == NightLoop(OrEmpty(cms), tzOffset, 0, 0)
  IN IF r.total = 0
       THEN [value |-> null, sample_size |-> 0]
       ELSE [value |-> <<r.night, r.total>>, sample_size |-> r.total]

(***************************************************************************)
(* computeGritFactor.                                                      *)
(***************************************************************************)
THRESHOLD_LONG_TERM_DAYS == 90

THRESHOLD_GEM_STARS == 5

\* MS_PER_DAY in the unit of the timestamps.
MinutesPerDay == 24 * 60

\* repos.filter(...) keeping every repository of the login, forks too.
GritOriginal_KeepForks(rs, lowerLogin) ==
  SelectSeq(rs, LAMBDA repo : ToLowerCase(repo.owner.login) = lowerLogin)

\* repos.filter((repo) => !repo.isFork && owner.toLowerCase() === lowerLogin)
GritOriginal(rs, lowerLogin) ==
  SelectSeq(rs, LAMBDA repo : ~repo.isFork /\ ToLowerCase(repo.owner.login) = lowerLogin)

\* Math.floor(diffMs / MS_PER_DAY); a difference with an unparseable end is NaN
\* and counts as 0, and so does a negative one.
LifeSpanDays(repo) ==
  LET createdAt == repo.createdAt
      pushedAt == IF repo.pushedAt = null THEN repo.createdAt ELSE repo.pushedAt[1]
      finite == ~IsNaNDate(createdAt) /\ ~IsNaNDate(pushedAt)
      diff == IF finite THEN pushedAt - createdAt ELSE 0
  IN (IF diff < 0 THEN 0 ELSE diff) \div MinutesPerDay

\* The branch of the classification that asks for more than the star threshold.
GritClass_MoreStars(repo) ==
  IF LifeSpanDays(repo) >= THRESHOLD_LONG_TERM_DAYS THEN "longTerm"
  ELSE IF repo.stargazerCount > THRESHOLD_GEM_STARS THEN "gem"
  ELSE "churn"

GritClass(repo) ==
  IF LifeSpanDays(repo) >= THRESHOLD_LONG_TERM_DAYS THEN "longTerm"
  ELSE IF repo.stargazerCount >= THRESHOLD_GEM_STARS THEN "gem"
  ELSE "churn"

RECURSIVE GritLoop(_, _)
GritLoop(original, acc) ==
  IF original = <<>> THEN acc
  ELSE GritLoop(Tail(original), [acc EXCEPT ![GritClass(Head(original))] = @ + 1])

ComputeGritFactor(rs, lg) ==
  LET original == GritOriginal(rs, ToLowerCase(lg))
      sampleSize == Len(original)
      c == GritLoop(original, [longTerm |-> 0, gem |-> 0, churn |-> 0])
  IN IF sampleSize = 0
       THEN [value |-> null, sample_size |-> 0, long_term_count |-> 0,
             gem_count |-> 0, churn_count |-> 0]
       ELSE [value |-> <<c.longTerm + c.gem, sampleSize>>, sample_size |-> sampleSize,
             long_term_count |-> c.longTerm, gem_count |-> c.gem,
             churn_count |-> c.churn]

(***************************************************************************)
(* computeUoi, computeExternalPrAcceptRate.                                *)
(***************************************************************************)
RECURSIVE UoiLoop(_, _, _, _)
UoiLoop(ps, lower, external, self) ==
  IF ps = <<>> THEN [external |-> external, self |-> self]
  ELSE LET owner == ToLowerCase(Head(ps).repository.owner.login)
       IN IF owner = lower
            THEN UoiLoop(Tail(ps), lower, external, self + 1)
            ELSE UoiLoop(Tail(ps), lower, external + 1, self)

\* computeUoi comparing the owner and the login as they are written.
ComputeUoi_CaseSensitive(ps, lg) ==
  LET external == Cardinality({i \in 1..Len(ps) : ps[i].repository.owner.login # lg})
  IN IF Len(ps) = 0 THEN null ELSE <<external, Len(ps)>>

ComputeUoi(ps, lg) ==
  LET r == UoiLoop(ps, ToLowerCase(lg), 0, 0)
      denom == r.external + r.self
  IN IF denom = 0 THEN null ELSE <<r.external, denom>>

RECURSIVE AcceptRateLoop(_, _, _, _)
AcceptRateLoop(ps, lower, externalTotal, merged) ==
  IF ps = <<>> THEN [externalTotal |-> externalTotal, merged |-> merged]
  ELSE LET pr == Head(ps)
           owner == ToLowerCase(pr.repository.owner.login)
       IN IF owner = lower
            THEN AcceptRateLoop(Tail(ps), lower, externalTotal, merged)
            ELSE AcceptRateLoop(Tail(ps), lower, externalTotal + 1,
                   IF pr.mergedAt # null THEN merged + 1 ELSE merged)

ComputeExternalPrAcceptRate(ps, lg) ==
  LET r == AcceptRateLoop(ps, ToLowerCase(lg), 0, 0)
  IN IF r.externalTotal = 0 THEN null ELSE <<r.merged, r.externalTotal>>

(***************************************************************************)
(* computeUniIndexV0.                                                      *)
(***************************************************************************)
OrgLogins(info, inclOrg) ==
  IF inclOrg /\ info # null
    THEN {ToLowerCase(info[1].organizations[i].login) :
            i \in 1..Len(info[1].organizations)}
    ELSE {}

RECURSIVE OwnCommits(_)
OwnCommits(cs) ==
  IF cs = <<>> THEN 0
  ELSE (IF Head(cs).repo.isOwn THEN 1 ELSE 0) + OwnCommits(Tail(cs))

RECURSIVE UniPrLoop(_, _, _, _, _)
UniPrLoop(ps, lowerLogin, orgLogins, ownedActivity, externalActivity) ==
  IF ps = <<>> THEN [owned |-> ownedActivity, external |-> externalActivity]
  ELSE LET pr == Head(ps)
           owner == ToLowerCase(pr.repository.owner.login)
           isSelf == owner = lowerLogin
           isOrg == owner \in orgLogins
           isOwnedSide == isSelf \/ isOrg
           base == 1
           mergedBonus == IF pr.mergedAt # null THEN 1 ELSE 0
           score == base + mergedBonus
       IN IF isOwnedSide
            THEN UniPrLoop(Tail(ps), lowerLogin, orgLogins,
                   ownedActivity + score, externalActivity)
            ELSE UniPrLoop(Tail(ps), lowerLogin, orgLogins,
                   ownedActivity, externalActivity + score)

\* computeUniIndexV0 never taking the organizations for the subject's own side.
ComputeUniIndexV0_IgnoreOrgs(ps, cms, lg, info, inclOrg) ==
  LET commitList == OrEmpty(cms)
      r == UniPrLoop(ps, ToLowerCase(lg), {}, OwnCommits(commitList), 0)
      totalActivity == r.owned + r.external
  IN IF totalActivity <= 0
       THEN [value |-> null, sample_size |-> 0, include_org_repos |-> inclOrg]
       ELSE [value |-> <<r.owned, totalActivity>>,
             sample_size |-> Len(commitList) + Len(ps),
             include_org_repos |-> inclOrg]

\* computeUniIndexV0 reporting the commit and PR count also without activity.
ComputeUniIndexV0_SampleAlways(ps, cms, lg, info, inclOrg) ==
  LET commitList == OrEmpty(cms)
      r == UniPrLoop(ps, ToLowerCase(lg), OrgLogins(info, inclOrg),
             OwnCommits(commitList), 0)
      totalActivity == r.owned + r.external
  IN [value |-> IF totalActivity <= 0 THEN null ELSE <<r.owned, totalActivity>>,
      sample_size |-> Len(commitList) + Len(ps),
      include_org_repos |-> inclOrg]

ComputeUniIndexV0(ps, cms, lg, info, inclOrg) ==
  LET commitList == OrEmpty(cms)
      r == UniPrLoop(ps, ToLowerCase(lg), OrgLogins(info, inclOrg),
             OwnCommits(commitList), 0)
      totalActivity == r.owned + r.external
  IN IF totalActivity <= 0
       THEN [value |-> null, sample_size |-> 0, include_org_repos |-> inclOrg]
       ELSE [value |-> <<r.owned, totalActivity>>,
             sample_size |-> Len(commitList) + Len(ps),
             include_org_repos |-> inclOrg]

(***************************************************************************)
(* computeForkDestiny.                                                     *)
(***************************************************************************)
ABS_VARIANT_STAR == 50

\* REL_VARIANT_RATIO = 0.3 as the fraction 3/10.
REL_VARIANT_RATIO == <<3, 10>>

IsOwnedFork(repo, lowerLogin) ==
  repo.isFork /\ ToLowerCase(repo.owner.login) = lowerLogin

RECURSIVE FilterOwnedForks(_, _)
FilterOwnedForks(rs, lowerLogin) ==
  IF rs = <<>> THEN <<>>
  ELSE IF IsOwnedFork(Head(rs), lowerLogin)
    THEN <<Head(rs)>> \o FilterOwnedForks(Tail(rs), lowerLogin)
    ELSE FilterOwnedForks(Tail(rs), lowerLogin)

RepoKey(owner, name) == <<ToLowerCase(owner), ToLowerCase(name)>>

RECURSIVE BuildForkMap(_, _)
BuildForkMap(forks, forkMap) ==
  IF forks = <<>> THEN forkMap
  ELSE LET repo == Head(forks)
           key == RepoKey(repo.owner.login, repo.name)
       IN BuildForkMap(Tail(forks),
            MapSet(forkMap, key,
              [repoKey |-> key, owner |-> repo.owner.login, name |-> repo.name,
               stars |-> repo.stargazerCount, hasMergedExternalPr |-> FALSE,
               maxBaseStars |-> null]))

RECURSIVE ScanAssociatedPRs(_, _, _)
ScanAssociatedPRs(aprs, lowerLogin, info) ==
  IF aprs = <<>> THEN info
  ELSE LET pr == Head(aprs)
           baseRepo == pr.baseRepo
           baseStars == baseRepo[1].stargazerCount
           withStars ==
             IF baseStars > 0
                /\ (info.maxBaseStars = null \/ baseStars > info.maxBaseStars[1])
               THEN [info EXCEPT !.maxBaseStars = Some(baseStars)]
               ELSE info
           withMerged ==
             IF pr.isMerged THEN [withStars EXCEPT !.hasMergedExternalPr = TRUE]
             ELSE withStars
       IN IF ~pr.isCrossRepository THEN ScanAssociatedPRs(Tail(aprs), lowerLogin, info)
          ELSE IF baseRepo = null THEN ScanAssociatedPRs(Tail(aprs), lowerLogin, info)
          ELSE IF ToLowerCase(baseRepo[1].owner) = lowerLogin
            THEN ScanAssociatedPRs(Tail(aprs), lowerLogin, info)
          ELSE ScanAssociatedPRs(Tail(aprs), lowerLogin, withMerged)

RECURSIVE ScanCommits(_, _, _)
ScanCommits(cs, lowerLogin, forkMap) ==
  IF cs = <<>> THEN forkMap
  ELSE LET commit == Head(cs)
           key == RepoKey(commit.repo.owner, commit.repo.name)
       IN IF ~MapHas(forkMap, key) THEN ScanCommits(Tail(cs), lowerLogin, forkMap)
          ELSE ScanCommits(Tail(cs), lowerLogin,
                 MapSet(forkMap, key,
                   ScanAssociatedPRs(commit.associatedPRs, lowerLogin,
                     MapGet(forkMap, key, null))))

RECURSIVE ClassifyForks(_, _)
ClassifyForks(infos, acc) ==
  IF infos = <<>> THEN acc
  ELSE LET info == Head(infos).val
           stars == info.stars
           absHigh == stars >= ABS_VARIANT_STAR
           relHigh == /\ info.maxBaseStars # null
                      /\ info.maxBaseStars[1] > 0
                      /\ RatLe(REL_VARIANT_RATIO, <<stars, info.maxBaseStars[1]>>)
           counted == [acc EXCEPT !.totalStars = @ + stars]
       IN IF info.hasMergedExternalPr
            THEN ClassifyForks(Tail(infos), [counted EXCEPT !.contributor = @ + 1])
          ELSE IF absHigh \/ relHigh
            THEN ClassifyForks(Tail(infos),
                   [counted EXCEPT !.variant = @ + 1, !.variantStars = @ + stars])
          ELSE ClassifyForks(Tail(infos), [counted EXCEPT !.noise = @ + 1])

ComputeForkDestiny(rs, cms, lg) ==
  LET lowerLogin == ToLowerCase(lg)
      ownedForks == FilterOwnedForks(rs, lowerLogin)
      totalForks == Len(ownedForks)
      forkMap == ScanCommits(OrEmpty(cms), lowerLogin, BuildForkMap(ownedForks, <<>>))
      c == ClassifyForks(forkMap,
             [contributor |-> 0, variant |-> 0, noise |-> 0,
              totalStars |-> 0, variantStars |-> 0])
  IN IF totalForks = 0
       THEN [total_forks |-> 0, contributor_forks |-> 0, variant_forks |-> 0,
             noise_forks |-> 0, total_fork_stars |-> 0, variant_fork_stars |-> 0]
       ELSE [total_forks |-> totalForks, contributor_forks |-> c.contributor,
             variant_forks |-> c.variant, noise_forks |-> c.noise,
             total_fork_stars |-> c.totalStars, variant_fork_stars |-> c.variantStars]

(***************************************************************************)
(* computeCommunityEngagement.                                             *)
(***************************************************************************)
ComputeCommunityEngagement(contrib) ==
  IF contrib = null
    THEN [value |-> null, talk_events |-> 0, code_events |-> 0, sample_size |-> 0]
    ELSE LET c == contrib[1]
             talk == c.totalIssueContributions + c.totalPullRequestReviewContributions
             code == c.totalCommitContributions + c.totalPullRequestContributions
                       + c.totalRepositoryContributions
             sampleSize == talk + code
         IN IF sampleSize <= 0
              THEN [value |-> null, talk_events |-> talk, code_events |-> code,
                    sample_size |-> 0]
              ELSE [value |-> <<talk, sampleSize>>, talk_events |-> talk,
                    code_events |-> code, sample_size |-> sampleSize]

(***************************************************************************)
(* computeContributionMomentum.  The summary is null or a one-tuple of a   *)
(* record whose contributionCalendar is null (the property is missing) or  *)
(* a one-tuple of [totalContributions, weeks]; a week is the sequence of   *)
(* the contributionCount of its contributionDays.  The value is the ratio  *)
(* recentTotal / (yearTotal / 4), kept as <<4 * recentTotal, yearTotal>>.  *)
(* Reading totalContributions of a missing calendar throws a TypeError,    *)
(* which the result [error |-> "TypeError"] stands for.                    *)
(***************************************************************************)
RECENT_WEEKS == 12

TypeError == [error |-> "TypeError"]

Threw(result) == "error" \in DOMAIN result

RECURSIVE SumDays(_)
SumDays(days) ==
  IF days = <<>> THEN 0 ELSE days[1] + SumDays(Tail(days))

RECURSIVE SumWeeks(_)
SumWeeks(weeks) ==
  IF weeks = <<>> THEN 0 ELSE SumDays(weeks[1]) + SumWeeks(Tail(weeks))

CalendarWeeks(c) ==
  IF c.contributionCalendar = null THEN <<>> ELSE c.contributionCalendar[1].weeks

\* The recent quarter taken as the latest 11 weeks.
RecentWeeks_Eleven(weeks) ==
  LET recentWeeks == IF Len(weeks) < 11 THEN Len(weeks) ELSE 11
  IN SubSeq(weeks, Len(weeks) - recentWeeks + 1, Len(weeks))

RecentWeeks(weeks) ==
  LET recentWeeks == IF Len(weeks) < RECENT_WEEKS THEN Len(weeks) ELSE RECENT_WEEKS
  IN SubSeq(weeks, Len(weeks) - recentWeeks + 1, Len(weeks))

MomentumStatus(value) ==
  IF RatLt(value, <<1, 10>>) THEN "ghost"
  ELSE IF RatLt(value, <<5, 10>>) THEN "cooling_down"
  ELSE IF RatLt(<<15, 10>>, value) THEN "accelerating"
  ELSE "steady"

ComputeContributionMomentum(contrib) ==
  IF contrib = null
    THEN [value |-> null, recent_quarter_total |-> 0, year_total |-> 0,
          status |-> "unknown"]
    ELSE LET c == contrib[1]
             weeks == CalendarWeeks(c)
             yearTotalFromDays == SumWeeks(weeks)
             recentTotal == SumWeeks(RecentWeeks(weeks))
         IN IF yearTotalFromDays <= 0 /\ c.contributionCalendar = null
              THEN TypeError
              ELSE LET yearTotal == IF yearTotalFromDays > 0
                                      THEN yearTotalFromDays
                                      ELSE c.contributionCalendar[1].totalContributions
                   IN IF yearTotal <= 0
                        THEN [value |-> null, recent_quarter_total |-> recentTotal,
                              year_total |-> yearTotal, status |-> "ghost"]
                        ELSE LET value == <<4 * recentTotal, yearTotal>>
                             IN [value |-> value,
                                 recent_quarter_total |-> recentTotal,
                                 year_total |-> yearTotal,
                                 status |-> MomentumStatus(value)]

(***************************************************************************)
(* computeProfileTags.                                                     *)
(***************************************************************************)
MIN_SAMPLE == 10

ForkTags_CleanerOfAnySize(fork) ==
  LET hard == IF fork.total_forks > 0 /\ fork.contributor_forks > 0
                THEN <<"hard_forker">> ELSE <<>>
      variant == IF fork.total_forks > 0 /\ fork.variant_forks > 0
                   THEN <<"variant_leader">> ELSE <<>>
      cleaner == IF /\ fork.total_forks > 0
                    /\ fork.contributor_forks = 0
                    /\ fork.variant_forks = 0
                    /\ RatLe(<<8, 10>>, <<fork.noise_forks, fork.total_forks>>)
                   THEN <<"fork_cleaner">> ELSE <<>>
  IN hard \o variant \o cleaner

ForkTags(fork) ==
  LET hard == IF fork.total_forks > 0 /\ fork.contributor_forks > 0
                THEN <<"hard_forker">> ELSE <<>>
      variant == IF fork.total_forks > 0 /\ fork.variant_forks > 0
                   THEN <<"variant_leader">> ELSE <<>>
      cleaner == IF /\ fork.total_forks > 0
                    /\ fork.total_forks >= 3
                    /\ fork.contributor_forks = 0
                    /\ fork.variant_forks = 0
                    /\ RatLe(<<8, 10>>, <<fork.noise_forks, fork.total_forks>>)
                   THEN <<"fork_cleaner">> ELSE <<>>
  IN hard \o variant \o cleaner

TalkTags_NoSampleFloor(community) ==
  LET v == community.value
  IN IF v # null
       THEN (IF RatLe(v, <<2, 10>>) THEN <<"silent_maker">>
             ELSE IF RatLe(<<6, 10>>, v) THEN <<"talker">>
             ELSE <<"vocal_contributor">>)
       ELSE <<>>

TalkTags(community) ==
  LET v == community.value
      sampleSize == community.sample_size
  IN IF v # null /\ sampleSize >= MIN_SAMPLE
       THEN (IF RatLe(v, <<2, 10>>) THEN <<"silent_maker">>
             ELSE IF RatLe(<<6, 10>>, v) THEN <<"talker">>
             ELSE <<"vocal_contributor">>)
       ELSE <<>>

ComputeProfileTags(fork, community) == ForkTags(fork) \o TalkTags(community)

(***************************************************************************)
(* parseTimezoneOffset, formatOffset, buildTimezone.  An override string   *)
(* is the tuple of its characters.                                         *)
(***************************************************************************)
Digits == <<"0", "1", "2", "3", "4", "5", "6", "7", "8", "9">>

IsDigit(c) == \E i \in 1..10 : Digits[i] = c

DigitVal(c) == (CHOOSE i \in 1..10 : Digits[i] = c) - 1

AsiaShanghai == <<"A", "s", "i", "a", "/", "S", "h", "a", "n", "g", "h", "a", "i">>

\* tz.match(/^([+-])(\d{2}):(\d{2})$/)
IsOffsetString(s) ==
  /\ Len(s) = 6
  /\ s[1] \in {"+", "-"}
  /\ IsDigit(s[2]) /\ IsDigit(s[3])
  /\ s[4] = ":"
  /\ IsDigit(s[5]) /\ IsDigit(s[6])

ParseTimezoneOffset_Unsigned(tz) ==
  IF tz = null \/ tz = Some(<<>>) THEN 0
  ELSE LET s == tz[1]
           hours == DigitVal(s[2]) * 10 + DigitVal(s[3])
           minutes == DigitVal(s[5]) * 10 + DigitVal(s[6])
       IN IF IsOffsetString(s) THEN hours * 60 + minutes
          ELSE IF s = AsiaShanghai THEN 8 * 60
          ELSE 0

ParseTimezoneOffset(tz) ==
  IF tz = null \/ tz = Some(<<>>) THEN 0
  ELSE LET s == tz[1]
           sign == IF s[1] = "-" THEN -1 ELSE 1
           hours == DigitVal(s[2]) * 10 + DigitVal(s[3])
           minutes == DigitVal(s[5]) * 10 + DigitVal(s[6])
       IN IF IsOffsetString(s) THEN sign * (hours * 60 + minutes)
          ELSE IF s = AsiaShanghai THEN 8 * 60
          ELSE 0

\* n.toString().padStart(2, "0")
PadStart2(n) == IF n < 10 THEN "0" \o ToString(n) ELSE ToString(n)

FormatOffset(minutes) ==
  LET sign == IF minutes < 0 THEN "-" ELSE "+"
      abs == IF minutes < 0 THEN -minutes ELSE minutes
  IN sign \o PadStart2(abs \div 60) \o ":" \o PadStart2(abs % 60)

BuildTimezone(tzOverrideArg, tzOffset) ==
  LET override == tzOverrideArg
      usedOffset == IF override # null /\ override # Some(<<>>) THEN tzOffset ELSE 0
  IN [auto |-> Some("+00:00"), override |-> override,
      used |-> Some(FormatOffset(usedOffset))]

(***************************************************************************)
(* buildSummaryEvidence.                                                   *)
(***************************************************************************)
Slice(s, n) == SubSeq(s, 1, IF Len(s) < n THEN Len(s) ELSE n)

BuildSummaryEvidence(lg, rs, ps) ==
  LET p5 == Slice(ps, 5)
      r5 == Slice(rs, 5)
  IN [sample_prs |-> [i \in 1..Len(p5) |-> p5[i].url],
      sample_repos |-> [i \in 1..Len(r5) |->
         "https://github.com/" \o r5[i].owner.login \o "/" \o r5[i].name]]

(***************************************************************************)
(* analyzeProfileReadme.  A markdown text is the sequence of its lines; a  *)
(* line is what the regular expressions of the analyzer see of it:         *)
(*   chars      length of the line after stripMarkdownFormatting and trim  *)
(*   langs      the KNOWN_LANGUAGES that occur as words in that text       *)
(*   eco        a JS_ECOSYSTEM_KEYWORD occurs in that text                 *)
(*   topics     the KNOWN_TOPICS that occur in that text                   *)
(*   mdImages   the alt texts (trimmed) of its ![alt](url) images          *)
(*   htmlImages the alt attributes (trimmed) of its <img> tags, null for a *)
(*              tag without a non-empty alt attribute                      *)
(*   repoUrls   the https://github.com/<owner>/<name> URLs on it           *)
(*   markup     it holds markup that strips to nothing (a tag, a rule)     *)
(***************************************************************************)
LineIsBlank(line) ==
  /\ line.chars = 0
  /\ line.mdImages = <<>>
  /\ line.htmlImages = <<>>
  /\ line.repoUrls = <<>>
  /\ ~line.markup

\* !raw.trim()
DocIsBlank(doc) == \A i \in 1..Len(doc) : LineIsBlank(doc[i])

RECURSIVE MdAlts(_)
MdAlts(alts) ==
  IF alts = <<>> THEN <<>>
  ELSE (IF Head(alts) # "" THEN <<Head(alts)>> ELSE <<>>) \o MdAlts(Tail(alts))

RECURSIVE HtmlAlts(_)
HtmlAlts(alts) ==
  IF alts = <<>> THEN <<>>
  ELSE (IF Head(alts) # null /\ Head(alts) # Some("") THEN <<Head(alts)[1]>> ELSE <<>>)
         \o HtmlAlts(Tail(alts))

RECURSIVE DocMdAlts(_)
DocMdAlts(doc) ==
  IF doc = <<>> THEN <<>> ELSE MdAlts(Head(doc).mdImages) \o DocMdAlts(Tail(doc))

RECURSIVE DocHtmlAlts(_)
DocHtmlAlts(doc) ==
  IF doc = <<>> THEN <<>> ELSE HtmlAlts(Head(doc).htmlImages) \o DocHtmlAlts(Tail(doc))

RECURSIVE TextLines(_)
TextLines(doc) ==
  IF doc = <<>> THEN <<>>
  ELSE (IF Head(doc).chars = 0 THEN <<>>
        ELSE <<[chars |-> Head(doc).chars, langs |-> Head(doc).langs,
                eco |-> Head(doc).eco, topics |-> Head(doc).topics]>>)
         \o TextLines(Tail(doc))

RECURSIVE SumChars(_)
SumChars(ls) == IF ls = <<>> THEN 0 ELSE Head(ls).chars + SumChars(Tail(ls))

AnalyzeProfileReadme(markdown) ==
  IF markdown = null
    THEN [style |-> "none", markdown |-> null, plain_text |-> null,
          text_excerpt |-> null, image_alt_texts |-> <<>>]
  ELSE IF DocIsBlank(markdown[1])
    THEN [style |-> "empty", markdown |-> Some(<<>>), plain_text |-> Some(<<>>),
          text_excerpt |-> null, image_alt_texts |-> <<>>]
  ELSE
    LET raw == markdown[1]
        imageAltTexts == DocMdAlts(raw) \o DocHtmlAlts(raw)
        textLines == TextLines(raw)
        textCharCount == SumChars(textLines)
        imageCount == Len(imageAltTexts)
        plainText == IF Len(textLines) = 0 THEN null ELSE Some(textLines)
        joined == textCharCount + Len(textLines) - 1
        style ==
          IF Len(textLines) <= 1 /\ textCharCount <= 140 /\ imageCount = 0
            THEN "one_liner"
          ELSE IF imageCount > 0 /\ imageCount >= Len(textLines)
            THEN "visual_dashboard"
          ELSE IF Len(textLines) >= 2 /\ textCharCount >= 80 /\ imageCount = 0
            THEN "short_bio"
          ELSE "mixed"
    IN [style |-> style, markdown |-> Some(raw), plain_text |-> plainText,
        \* the excerpt is kept by its length: plainText.slice(0, 400)
        text_excerpt |-> IF plainText = null THEN null
                         ELSE Some(IF joined < 400 THEN joined ELSE 400),
        image_alt_texts |-> imageAltTexts]

(***************************************************************************)
(* computeReadmeConsistency and its extractors.                            *)
(***************************************************************************)
KNOWN_LANGUAGES ==
  <<"TypeScript", "JavaScript", "Python", "Go", "Rust", "Java", "C++", "C#", "C",
    "Ruby", "PHP", "Kotlin", "Swift", "Scala", "Haskell", "Elixir", "Clojure",
    "Dart", "Objective-C", "Shell", "Bash", "Lua">>

\* The topics of KNOWN_TOPICS that the model's texts use, in the order of
\* Array.prototype.sort.
SortedTopics == <<"cli", "docker", "react", "typescript">>

\* The languages a single word (an alt text, a name inside a URL) matches.
WordLangs(w) ==
  {KNOWN_LANGUAGES[i] : i \in {j \in 1..Len(KNOWN_LANGUAGES) :
                                 ToLowerCase(KNOWN_LANGUAGES[j]) = ToLowerCase(w)}}

WordIsEco(w) == ToLowerCase(w) \in {"react", "node", "vue", "next", "svelte", "angular"}

WordTopics(w) == IF ToLowerCase(w) \in Range(SortedTopics) THEN {ToLowerCase(w)} ELSE {}

\* What the patterns find in one of the texts of the haystack.
TextOfLines(ls) ==
  [langs |-> UNION {ls[i].langs : i \in 1..Len(ls)},
   eco |-> \E i \in 1..Len(ls) : ls[i].eco,
   topics |-> UNION {ls[i].topics : i \in 1..Len(ls)}]

TextOfWords(ws) ==
  [langs |-> UNION {WordLangs(ws[i]) : i \in 1..Len(ws)},
   eco |-> \E i \in 1..Len(ws) : WordIsEco(ws[i]),
   topics |-> UNION {WordTopics(ws[i]) : i \in 1..Len(ws)}]

RECURSIVE RawWords(_)
RawWords(doc) ==
  IF doc = <<>> THEN <<>>
  ELSE LET line == Head(doc)
           urls == line.repoUrls
           htmlAlts == HtmlAlts(line.htmlImages)
       IN line.mdImages \o htmlAlts
            \o [i \in 1..Len(urls) |-> urls[i].owner]
            \o [i \in 1..Len(urls) |-> urls[i].name]
            \o RawWords(Tail(doc))

\* The raw markdown as a text: the stripped text of its lines and the words that
\* stripping removes.
TextOfRaw(doc) ==
  LET a == TextOfLines(doc)
      b == TextOfWords(RawWords(doc))
  IN [langs |-> a.langs \cup b.langs, eco |-> a.eco \/ b.eco,
      topics |-> a.topics \cup b.topics]

Haystack(readme) ==
  LET plain == IF readme.plain_text # null /\ readme.plain_text # Some(<<>>)
                 THEN <<TextOfLines(readme.plain_text[1])>> ELSE <<>>
      alts == IF Len(readme.image_alt_texts) > 0
                THEN <<TextOfWords(readme.image_alt_texts)>> ELSE <<>>
      texts == plain \o alts
  IN IF Len(texts) = 0 /\ readme.markdown # null /\ readme.markdown # Some(<<>>)
       THEN <<TextOfRaw(readme.markdown[1])>>
       ELSE texts

RECURSIVE FilterSeq(_, _)
FilterSeq(s, keep) ==
  IF s = <<>> THEN <<>>
  ELSE (IF Head(s) \in keep THEN <<Head(s)>> ELSE <<>>) \o FilterSeq(Tail(s), keep)

ExtractReadmeLanguages(readme) ==
  LET texts == Haystack(readme)
      langs == UNION {texts[i].langs : i \in 1..Len(texts)}
      eco == \E i \in 1..Len(texts) : texts[i].eco
      found == FilterSeq(KNOWN_LANGUAGES, langs)
  IN IF Len(texts) = 0 THEN <<>>
     ELSE IF eco /\ "JavaScript" \notin langs THEN Append(found, "JavaScript")
     ELSE found

ExtractReadmeTopics(readme) ==
  LET texts == Haystack(readme)
  IN IF Len(texts) = 0 THEN <<>>
     ELSE FilterSeq(SortedTopics, UNION {texts[i].topics : i \in 1..Len(texts)})

RECURSIVE DocRepoUrls(_)
DocRepoUrls(doc) ==
  IF doc = <<>> THEN <<>> ELSE Head(doc).repoUrls \o DocRepoUrls(Tail(doc))

RECURSIVE OwnedMentions(_, _, _)
OwnedMentions(urls, ownerLower, result) ==
  IF urls = <<>> THEN result
  ELSE LET full == ownerLower \o "/" \o ToLowerCase(Head(urls).name)
       IN IF ToLowerCase(Head(urls).owner) = ownerLower /\ full \notin Range(result)
            THEN OwnedMentions(Tail(urls), ownerLower, Append(result, full))
            ELSE OwnedMentions(Tail(urls), ownerLower, result)

ExtractOwnedRepoMentions(readme, lg) ==
  IF readme.markdown = null \/ readme.markdown = Some(<<>>) \/ lg = "" THEN <<>>
  ELSE OwnedMentions(DocRepoUrls(readme.markdown[1]), ToLowerCase(lg), <<>>)

SelectSeq2_CaseSensitive(s, keepLower) == FilterSeq(s, keepLower)

RECURSIVE SelectSeq2(_, _)
SelectSeq2(s, keepLower) ==
  IF s = <<>> THEN <<>>
  ELSE (IF ToLowerCase(Head(s)) \in keepLower THEN <<Head(s)>> ELSE <<>>)
         \o SelectSeq2(Tail(s), keepLower)

\* The owned repositories of the data under the names as they are written.
OwnedReposInDataSet_NamesAsWritten(rs, ownerLower) ==
  {ownerLower \o "/" \o rs[i].name :
     i \in {j \in 1..Len(rs) : ToLowerCase(rs[j].owner.login) = ownerLower}}

\* new Set(repos.filter(owner is the login).map(`${ownerLower}/${name lower}`))
OwnedReposInDataSet(rs, ownerLower) ==
  {ownerLower \o "/" \o ToLowerCase(rs[i].name) :
     i \in {j \in 1..Len(rs) : ToLowerCase(rs[j].owner.login) = ownerLower}}

ComputeReadmeConsistency(readme, skills, lg, rs) ==
  LET readmeLanguages == ExtractReadmeLanguages(readme)
      metricLanguages == [i \in 1..Len(skills) |-> skills[i].lang]
      metricLanguageSet == {ToLowerCase(metricLanguages[i]) : i \in 1..Len(skills)}
      languageOverlap == SelectSeq2(readmeLanguages, metricLanguageSet)
      supportedRatio == IF Len(readmeLanguages) > 0
                          THEN <<Len(languageOverlap), Len(readmeLanguages)>>
                          ELSE null
      consistencyLevel ==
        IF supportedRatio = null THEN "unknown"
        ELSE IF RatLe(<<8, 10>>, supportedRatio) THEN "strong"
        ELSE IF RatLe(<<4, 10>>, supportedRatio) THEN "partial"
        ELSE "poor"
      ownerLower == ToLowerCase(lg)
      ownedReposMentioned == ExtractOwnedRepoMentions(readme, lg)
      ownedReposInDataSet == OwnedReposInDataSet(rs, ownerLower)
      readmeTopics == ExtractReadmeTopics(readme)
      metricTopicsSet ==
        UNION {{ToLowerCase(rs[i].repositoryTopics[k]) :
                  k \in 1..Len(rs[i].repositoryTopics)} : i \in 1..Len(rs)}
  IN [readme_languages |-> readmeLanguages,
      metric_languages |-> metricLanguages,
      language_overlap |-> languageOverlap,
      readme_language_supported_ratio |-> supportedRatio,
      readme_vs_skills_consistency |-> consistencyLevel,
      owned_repos_mentioned |-> ownedReposMentioned,
      owned_repos_found_in_data |-> FilterSeq(ownedReposMentioned, ownedReposInDataSet),
      owned_repos_missing_in_data |->
        FilterSeq(ownedReposMentioned, Range(ownedReposMentioned) \ ownedReposInDataSet),
      readme_topics |-> readmeTopics,
      metric_topics |-> FilterSeq(SortedTopics, metricTopicsSet),
      topic_overlap |-> SelectSeq2(readmeTopics, metricTopicsSet)]

(***************************************************************************)
(* analyzeAll (src/analysis/index.ts).                                     *)
(***************************************************************************)
\* a < b on two timestamp strings of one format.
StrLt(a, b) == a < b

RECURSIVE MinCreatedAt(_, _)
MinCreatedAt(xs, min) ==
  IF xs = <<>> THEN min
  ELSE MinCreatedAt(Tail(xs), IF StrLt(Head(xs).createdAt, min) THEN Head(xs).createdAt ELSE min)

RECURSIVE MaxCreatedAt(_, _)
MaxCreatedAt(xs, max) ==
  IF xs = <<>> THEN max
  ELSE MaxCreatedAt(Tail(xs), IF StrLt(max, Head(xs).createdAt) THEN Head(xs).createdAt ELSE max)

MaxPushedAt_OfFirstRepo(rs, maxPushed) == maxPushed

RECURSIVE MaxPushedAt(_, _)
MaxPushedAt(rs, maxPushed) ==
  IF rs = <<>> THEN maxPushed
  ELSE LET repo == Head(rs)
       IN IF repo.pushedAt # null
             /\ (maxPushed = null \/ StrLt(maxPushed[1], repo.pushedAt[1]))
            THEN MaxPushedAt(Tail(rs), repo.pushedAt)
            ELSE MaxPushedAt(Tail(rs), maxPushed)

RECURSIVE CountExternal(_, _)
CountExternal(ps, lowerLogin) ==
  IF ps = <<>> THEN 0
  ELSE (IF ToLowerCase(Head(ps).repository.owner.login) # lowerLogin THEN 1 ELSE 0)
         + CountExternal(Tail(ps), lowerLogin)

InfoField(info, field, dflt) == IF info = null THEN dflt ELSE info[1][field]

\* The Profile and the histogram that analyzeAll returns, from the options and
\* the values v of its local constants.
AssembleProfile(o, v) ==
  LET reposTotal == Len(o.repos)
      prsTotal == Len(o.prs)
      firstPr == IF prsTotal > 0
                   THEN Some(MinCreatedAt(o.prs, o.prs[1].createdAt)) ELSE null
      lastPr == IF prsTotal > 0
                  THEN Some(MaxCreatedAt(o.prs, o.prs[1].createdAt)) ELSE null
      firstCreatedAt == IF reposTotal > 0
                          THEN Some(MinCreatedAt(o.repos, o.repos[1].createdAt)) ELSE null
      lastPushedAt == IF reposTotal > 0
                        THEN MaxPushedAt(o.repos, o.repos[1].pushedAt) ELSE null
  IN [profile |->
       [login |-> o.login,
        bio |-> InfoField(o.userInfo, "bio", null),
        company |-> InfoField(o.userInfo, "company", null),
        location |-> InfoField(o.userInfo, "location", null),
        websiteUrl |-> InfoField(o.userInfo, "websiteUrl", null),
        twitterUsername |-> InfoField(o.userInfo, "twitterUsername", null),
        followers |-> InfoField(o.userInfo, "followers", 0),
        following |-> InfoField(o.userInfo, "following", 0),
        organizations |-> InfoField(o.userInfo, "organizations", <<>>),
        tags |-> v.tags,
        timezone |-> v.timezone,
        skills |-> v.langWeights,
        core_hours |-> v.coreHours,
        uoi |-> v.uoi,
        uoi_sample_size |-> prsTotal,
        external_pr_accept_rate |-> v.externalRate,
        external_pr_sample_size |-> CountExternal(o.prs, ToLowerCase(o.login)),
        uni_index |-> v.uniIndex,
        night_ratio |-> v.night.value,
        night_ratio_sample_size |-> v.night.sample_size,
        focus_ratio |-> v.focus.value,
        focus_ratio_sample_size |-> v.focus.sample_size,
        fork_destiny |-> v.forkDestiny,
        community_engagement |-> v.communityEngagement,
        summary_evidence |-> v.summary,
        contributions |-> o.contributions,
        readme |-> v.readme,
        consistency |-> v.consistency,
        data_coverage |->
          [repos_total |-> reposTotal,
           prs_total |-> prsTotal,
           prs_time_range |-> [first |-> firstPr, last |-> lastPr],
           repos_time_range |->
             [first_created_at |-> firstCreatedAt, last_pushed_at |-> lastPushedAt]]],
      hoursHistogram |-> v.hoursHistogram]

AnalyzeAll(o) ==
  LET langWeights == ComputeLanguageWeights(o.repos)
      tzOffset == ParseTimezoneOffset(o.tzOverride)
      hoursHistogram == ComputeHoursHistogram(o.prs, tzOffset)
      coreHours == ComputeCoreHours(hoursHistogram)
      uoi == ComputeUoi(o.prs, o.login)
      externalRate == ComputeExternalPrAcceptRate(o.prs, o.login)
      uniIndex == ComputeUniIndexV0(o.prs, o.commits, o.login, o.userInfo, TRUE)
      night == ComputeNightRatio(o.commits, tzOffset)
      focus == ComputeFocusRatio(o.repos)
      forkDestiny == ComputeForkDestiny(o.repos, o.commits, o.login)
      communityEngagement == ComputeCommunityEngagement(o.contributions)
      tags == ComputeProfileTags(forkDestiny, communityEngagement)
      timezone == BuildTimezone(o.tzOverride, tzOffset)
      summary == BuildSummaryEvidence(o.login, o.repos, o.prs)
      readme == AnalyzeProfileReadme(o.profileReadmeMarkdown)
      consistency == ComputeReadmeConsistency(readme, langWeights, o.login, o.repos)
  IN AssembleProfile(o,
       [langWeights |-> langWeights, hoursHistogram |-> hoursHistogram,
        coreHours |-> coreHours, uoi |-> uoi, externalRate |-> externalRate,
        uniIndex |-> uniIndex, night |-> night, focus |-> focus,
        forkDestiny |-> forkDestiny, communityEngagement |-> communityEngagement,
        tags |-> tags, timezone |-> timezone, summary |-> summary,
        readme |-> readme, consistency |-> consistency])

(***************************************************************************)
(* Input records.                                                          *)
(***************************************************************************)
\* Minutes since 00:00Z of day 0 of the timestamp "day d, hh:mm:00Z".
At(d, hh, mm) == d * 24 * 60 + hh * 60 + mm

\* A timestamp string that Date cannot parse.
BadTimestamp == -1

Repo(owner, name, isFork, stars, primary, languages, topics, createdAt, pushedAt) ==
  [name |-> name, isFork |-> isFork, stargazerCount |-> stars,
   primaryLanguage |-> primary, languages |-> languages,
   repositoryTopics |-> topics, createdAt |-> createdAt, pushedAt |-> pushedAt,
   owner |-> [login |-> owner]]

Edge(name, size) == [name |-> name, size |-> size]

PullRequest(createdAt, mergedAt, owner, url) ==
  [createdAt |-> createdAt, mergedAt |-> mergedAt,
   repository |-> [name |-> "repo", owner |-> [login |-> owner]], url |-> url]

Commit(owner, name, isOwn, authoredAt, isMerge, associatedPRs) ==
  [repo |-> [owner |-> owner, name |-> name, isOwn |-> isOwn],
   authoredAt |-> authoredAt, isMerge |-> isMerge, associatedPRs |-> associatedPRs]

AssociatedPR(isCrossRepository, baseRepo, isMerged) ==
  [isCrossRepository |-> isCrossRepository, baseRepo |-> baseRepo, isMerged |-> isMerged]

UserInfoOf(organizations) ==
  [bio |-> null, company |-> null, location |-> null, websiteUrl |-> null,
   twitterUsername |-> null, followers |-> 0, following |-> 0,
   organizations |-> [i \in 1..Len(organizations) |-> [login |-> organizations[i]]]]

EmptyOptions ==
  [login |-> "self", repos |-> <<>>, prs |-> <<>>, commits |-> null,
   contributions |-> null, tzOverride |-> null, profileReadmeMarkdown |-> null,
   userInfo |-> null]

NoHist == [h \in Hours |-> null]

NoRet == [fn |-> "none", value |-> null]

\* The state of the arguments a specification does not use.
Idle(o) ==
  /\ options = o
  /\ tzOffsetMinutes = 0
  /\ hist = NoHist
  /\ includeOrgRepos = TRUE
  /\ pc = "ready"
  /\ ret = NoRet

Return(fn, value) ==
  /\ pc' = "done"
  /\ ret' = [fn |-> fn, value |-> value]
  /\ UNCHANGED <<options, tzOffsetMinutes, hist, includeOrgRepos>>

Returned(fn) == pc = "done" /\ ret.fn = fn

\* An exception leaves the call without a result.
Raise(fn, error) ==
  /\ pc' = "raised"
  /\ ret' = [fn |-> fn, value |-> error]
  /\ UNCHANGED <<options, tzOffsetMinutes, hist, includeOrgRepos>>

Raised(fn) == pc = "raised" /\ ret.fn = fn

(***************************************************************************)
(* The weight calculators called on a repository list.                     *)
(***************************************************************************)
WeightRepos ==
  { Repo("self", "a", FALSE, 10, Some("TypeScript"),
         <<Edge("TypeScript", 3), Edge("JavaScript", 1)>>, <<"react", "typescript">>,
         At(0, 0, 0), Some(At(1, 0, 0))),
    Repo("self", "b", FALSE, 5, Some("Python"),
         <<Edge("Python", 2)>>, <<"react">>, At(0, 0, 0), Some(At(2, 0, 0))),
    Repo("self", "c", FALSE, 0, Some("Go"),
         <<Edge("Go", 1), Edge("TypeScript", 1)>>, <<"cli">>, At(0, 0, 0), null),
    Repo("self", "d", FALSE, 0, null, <<>>, <<>>, At(0, 0, 0), null),
    Repo("self", "e", FALSE, 3, Some("TypeScript"), <<>>, <<>>, At(0, 0, 0), null),
    Repo("other", "f", TRUE, 1, Some("JavaScript"),
         <<Edge("JavaScript", 2)>>, <<"cli">>, At(0, 0, 0), null) }

InitWeights ==
  \E rs \in SeqsUpTo(WeightRepos, MaxRepos) : Idle([EmptyOptions EXCEPT !.repos = rs])

CallComputeLanguageWeights ==
  /\ pc = "ready"
  /\ Return("computeLanguageWeights", ComputeLanguageWeights(options.repos))

CallComputeLanguageWeightsV2 ==
  /\ pc = "ready"
  /\ Return("computeLanguageWeightsV2", ComputeLanguageWeightsV2(options.repos))

CallComputeTopicWeights ==
  /\ pc = "ready"
  /\ Return("computeTopicWeights", ComputeTopicWeights(options.repos))

NextWeights ==
  \/ CallComputeLanguageWeights
  \/ CallComputeLanguageWeightsV2
  \/ CallComputeTopicWeights

SpecWeights == InitWeights /\ [][NextWeights]_vars

(***************************************************************************)
(* Claims on the weight calculators.                                       *)
(***************************************************************************)
RECURSIVE SumNumerators(_)
SumNumerators(ws) ==
  IF ws = <<>> THEN 0 ELSE Head(ws).weight[1] + SumNumerators(Tail(ws))

\* The weights, fractions of one denominator, add up to 1.
SumToOne(ws) ==
  /\ ws # <<>>
  /\ \A i \in 1..Len(ws) : ws[i].weight[2] = ws[1].weight[2]
  /\ SumNumerators(ws) = ws[1].weight[2]

\* The repository carries the data the calculator fn reads.
CarriesData(repo, fn) ==
  CASE fn = "computeLanguageWeights" -> repo.primaryLanguage # null
    [] fn = "computeLanguageWeightsV2" -> repo.languages # <<>>
    [] fn = "computeTopicWeights" -> repo.repositoryTopics # <<>>

WeightFns == {"computeLanguageWeights", "computeLanguageWeightsV2", "computeTopicWeights"}

WeightKeys(fn, ws) ==
  IF fn = "computeTopicWeights" THEN {ws[i].topic : i \in 1..Len(ws)}
  ELSE {ws[i].lang : i \in 1..Len(ws)}

\* C3: the weights of each of the three calculators sum to 1 whenever a
\* repository carries the language/topic data, every weight lies in (0,1], the
\* entries are in descending order of weight, and the list is empty exactly
\* when no repository carries the data.
C3_WeightsNormalized ==
  (pc = "done" /\ ret.fn \in WeightFns) =>
    LET ws == ret.value
        data == \E i \in 1..Len(options.repos) : CarriesData(options.repos[i], ret.fn)
    IN /\ data => SumToOne(ws)
       /\ \A i \in 1..Len(ws) :
            RatLt(<<0, 1>>, ws[i].weight) /\ RatLe(ws[i].weight, <<1, 1>>)
       /\ \A i, j \in 1..Len(ws) : i < j => RatLe(ws[j].weight, ws[i].weight)
       /\ (Len(ws) = 0) <=> ~data

\* C4: a repository with zero stars is never dropped: each of its languages
\* appears in the language weights and each of its topics in the topic weights.
C4_ZeroStarRepoKept ==
  (pc = "done" /\ ret.fn \in WeightFns) =>
    \A i \in 1..Len(options.repos) :
      LET repo == options.repos[i]
          keys == WeightKeys(ret.fn, ret.value)
      IN repo.stargazerCount = 0 =>
           CASE ret.fn = "computeLanguageWeights" ->
                  repo.primaryLanguage # null => repo.primaryLanguage[1] \in keys
             [] ret.fn = "computeLanguageWeightsV2" ->
                  \A k \in 1..Len(repo.languages) : repo.languages[k].name \in keys
             [] ret.fn = "computeTopicWeights" ->
                  \A k \in 1..Len(repo.repositoryTopics) : repo.repositoryTopics[k] \in keys

(***************************************************************************)
(* computeHoursHistogram and computeNightRatio called on timestamps and a  *)
(* timezone offset.                                                        *)
(***************************************************************************)
TimeStamps == {At(0, 10, 45), At(0, 12, 45), At(0, 23, 30), At(1, 3, 0), BadTimestamp}

TzOffsets == {0, 480, 570, -330, -60}

TimePrs == {PullRequest(t, null, "other", "u") : t \in TimeStamps}

TimeCommits ==
  {Commit("self", "a", TRUE, t, m, <<>>) : t \in TimeStamps, m \in BOOLEAN}

InitTime ==
  \E tz \in TzOffsets :
    /\ \/ \E ps \in SeqsUpTo(TimePrs, MaxPrs) :
            options = [EmptyOptions EXCEPT !.prs = ps]
       \/ \E cs \in SeqsUpTo(TimeCommits, MaxCommits) :
            options = [EmptyOptions EXCEPT !.commits = Some(cs)]
    /\ tzOffsetMinutes = tz
    /\ hist = NoHist
    /\ includeOrgRepos = TRUE
    /\ pc = "ready"
    /\ ret = NoRet

CallComputeHoursHistogram ==
  /\ pc = "ready"
  /\ Return("computeHoursHistogram", ComputeHoursHistogram(options.prs, tzOffsetMinutes))

CallComputeNightRatio ==
  /\ pc = "ready"
  /\ Return("computeNightRatio", ComputeNightRatio(options.commits, tzOffsetMinutes))

NextTime ==
  \/ CallComputeHoursHistogram
  \/ CallComputeNightRatio

SpecTime == InitTime /\ [][NextTime]_vars

(***************************************************************************)
(* Claims on the local hour.                                               *)
(***************************************************************************)
\* The hour of day of the instant ts moved by tzOffset minutes.
TrueLocalHour(ts, tzOffset) == ((ts + tzOffset) % (24 * 60)) \div 60

\* The commits computeNightRatio is about: not a merge, parseable timestamp.
SampledCommits(cs) ==
  {i \in 1..Len(cs) : ~cs[i].isMerge /\ ~IsNaNDate(cs[i].authoredAt)}

NightCommits(cs, tzOffset) ==
  {i \in SampledCommits(cs) : TrueLocalHour(cs[i].authoredAt, tzOffset) \in NightHours}

\* C6: computeHoursHistogram counts every pull request with a parseable
\* timestamp in the bin of the hour of day of (UTC instant + offset minutes),
\* also for offsets that are no whole number of hours, and computeNightRatio
\* decides on the same local hour for commits.
C6_LocalHourBins ==
  /\ Returned("computeHoursHistogram") =>
       \A h \in Hours :
         LET n == Cardinality({i \in 1..Len(options.prs) :
                      /\ ~IsNaNDate(options.prs[i].createdAt)
                      /\ TrueLocalHour(options.prs[i].createdAt, tzOffsetMinutes) = h})
         IN BinOrZero(ret.value, h) = n
  /\ Returned("computeNightRatio") =>
       LET cs == OrEmpty(options.commits)
       IN ret.value.value # null =>
            ret.value.value[1] = Cardinality(NightCommits(cs, tzOffsetMinutes))

\* C8: the sample size of computeNightRatio is the number of non-merge commits
\* with a parseable author timestamp, its value the share of those whose local
\* hour is one of 22, 23, 0, 1, 2, 3, 4, and null with sample size 0 when there
\* is none (as for a list of merge commits only).
C8_NightRatio ==
  Returned("computeNightRatio") =>
    LET cs == OrEmpty(options.commits)
        total == Cardinality(SampledCommits(cs))
        night == Cardinality(NightCommits(cs, tzOffsetMinutes))
    IN /\ ret.value.sample_size = total
       /\ IF total = 0 THEN ret.value.value = null
          ELSE ret.value.value # null /\ RatEq(ret.value.value, <<night, total>>)

(***************************************************************************)
(* computeCoreHours called on a histogram.                                 *)
(***************************************************************************)
MaxBins == 2
MaxCount == 2

\* The hours that may carry a count: neighbours, and the wrap from 23 to 0.
HistHours == {0, 1, 2, 12, 22, 23}

HistOf(f) == [h \in Hours |-> IF h \in DOMAIN f THEN f[h] ELSE null]

\* The histogram of PRs at 10:15, 10:45, 18:30 and 19:30.
TestHistogram == HistOf(10 :> Some(2) @@ 18 :> Some(1) @@ 19 :> Some(1))

HistInputs ==
  {HistOf(f) : f \in UNION {[S -> {Some(c) : c \in 0..MaxCount}] :
                              S \in {T \in SUBSET HistHours : Cardinality(T) <= MaxBins}}}
    \cup {TestHistogram}

InitCoreHours ==
  \E h \in HistInputs :
    /\ options = EmptyOptions
    /\ tzOffsetMinutes = 0
    /\ hist = h
    /\ includeOrgRepos = TRUE
    /\ pc = "ready"
    /\ ret = NoRet

CallComputeCoreHours ==
  /\ pc = "ready"
  /\ Return("computeCoreHours", ComputeCoreHours(hist))

NextCoreHours == CallComputeCoreHours

SpecCoreHours == InitCoreHours /\ [][NextCoreHours]_vars

\* C7: computeCoreHours returns at most 2 windows, no window exactly when every
\* bin is null or zero, and never the same window twice.
C7_CoreHours ==
  Returned("computeCoreHours") =>
    LET ws == ret.value
    IN /\ Len(ws) <= 2
       /\ (Len(ws) = 0) <=> (\A h \in Hours : hist[h] = null \/ hist[h] = Some(0))
       /\ \A i, j \in 1..Len(ws) : i # j => ws[i] # ws[j]

\* A histogram with an empty and a counted bin gave two windows.
C7_Witness ==
  /\ Returned("computeCoreHours")
  /\ Len(ret.value) = 2
  /\ \E h \in Hours : hist[h] = Some(0)
  /\ \E h \in Hours : hist[h] # null /\ hist[h] # Some(0)

(***************************************************************************)
(* Claims on the order of the core hours.                                  *)
(***************************************************************************)
\* The sum of the window that starts at hour h.
WindowSum(h) == BinOrZero(hist, h) + BinOrZero(hist, (h + 1) % 24)

\* Window a ranks before window b: the higher sum, the smaller start on a tie.
RanksBefore(a, b) ==
  \/ WindowSum(a) > WindowSum(b)
  \/ WindowSum(a) = WindowSum(b) /\ a < b

\* The window that ranks before every window outside the set taken.
BestWindowBut(taken) ==
  CHOOSE h \in Hours \ taken : \A g \in Hours \ (taken \cup {h}) : RanksBefore(h, g)

ReportedWindow(h) == [start |-> FormatHour(h), end |-> FormatHour((h + 1) % 24)]

\* C27: on a histogram with an event, computeCoreHours returns the two
\* windows of the highest sums of bins h and (h+1) mod 24 (null as 0), the
\* higher sum first and the smaller start hour first on equal sums, each as
\* start h:00 and end (h+1 mod 24):00; the histogram with bin 10 = 2,
\* bin 18 = 1 and bin 19 = 1 gives 09:00-10:00 first.
C27_CoreHoursRanking ==
  Returned("computeCoreHours") =>
    /\ (\E h \in Hours : BinOrZero(hist, h) > 0) =>
         LET first == BestWindowBut({})
             second == BestWindowBut({first})
         IN ret.value = <<ReportedWindow(first), ReportedWindow(second)>>
    /\ hist = TestHistogram =>
         ret.value[1] = [start |-> "09:00", end |-> "10:00"]

\* The windows 9, 10 and 18 of the example tie at 2, and 9 and 10 came out.
C27_Witness ==
  /\ Returned("computeCoreHours")
  /\ hist = TestHistogram
  /\ WindowSum(9) = 2 /\ WindowSum(10) = 2 /\ WindowSum(18) = 2
  /\ ret.value = <<[start |-> "09:00", end |-> "10:00"],
                   [start |-> "10:00", end |-> "11:00"]>>

(***************************************************************************)
(* computeUoi and computeExternalPrAcceptRate called on a pull-request     *)
(* list and a login.                                                       *)
(***************************************************************************)
PrOwners == {"self", "Self", "SELF", "other", "Org"}

PrKinds ==
  {PullRequest(At(0, 10, 0), m, o, "u") : m \in {null, Some(At(1, 0, 0))}, o \in PrOwners}

InitPrs ==
  \E ps \in SeqsUpTo(PrKinds, MaxPrs), lg \in {"self", "Self"} :
    Idle([EmptyOptions EXCEPT !.prs = ps, !.login = lg])

CallComputeUoi ==
  /\ pc = "ready"
  /\ Return("computeUoi", ComputeUoi(options.prs, options.login))

CallComputeExternalPrAcceptRate ==
  /\ pc = "ready"
  /\ Return("computeExternalPrAcceptRate",
            ComputeExternalPrAcceptRate(options.prs, options.login))

NextPrs ==
  \/ CallComputeUoi
  \/ CallComputeExternalPrAcceptRate

SpecPrs == InitPrs /\ [][NextPrs]_vars

\* The spellings of one login.
LoginClasses == {{"self", "Self", "SELF"}, {"other", "Other"}, {"org", "Org"}}

SameLogin(a, b) == \E c \in LoginClasses : a \in c /\ b \in c

ExternalPrs(ps, lg) == {i \in 1..Len(ps) : ~SameLogin(ps[i].repository.owner.login, lg)}

InUnitInterval(q) == RatLe(<<0, 1>>, q) /\ RatLe(q, <<1, 1>>)

\* C9: a pull request is external exactly when the owner of its repository
\* differs from the login, letter case ignored; computeUoi is external / all and
\* null iff the list is empty; computeExternalPrAcceptRate is merged external /
\* external and null iff there is no external pull request; both are in [0,1].
C9_UoiAndAcceptRate ==
  LET ps == options.prs
      ext == ExternalPrs(ps, options.login)
      merged == {i \in ext : ps[i].mergedAt # null}
  IN /\ Returned("computeUoi") =>
          /\ (ret.value = null) <=> (Len(ps) = 0)
          /\ ret.value # null =>
               RatEq(ret.value, <<Cardinality(ext), Len(ps)>>) /\ InUnitInterval(ret.value)
     /\ Returned("computeExternalPrAcceptRate") =>
          /\ (ret.value = null) <=> (ext = {})
          /\ ret.value # null =>
               /\ RatEq(ret.value, <<Cardinality(merged), Cardinality(ext)>>)
               /\ InUnitInterval(ret.value)

\* computeUoi ran on a list with a pull request to the subject's own repository
\* whose owner is spelled in another case than the login, and an external one.
C9_Witness ==
  /\ Returned("computeUoi")
  /\ ret.value # null
  /\ \E i \in 1..Len(options.prs) :
       /\ options.prs[i].repository.owner.login # options.login
       /\ SameLogin(options.prs[i].repository.owner.login, options.login)
  /\ ExternalPrs(options.prs, options.login) # {}

(***************************************************************************)
(* computeUniIndexV0 called directly.                                      *)
(***************************************************************************)
UniPrs ==
  {PullRequest(At(0, 10, 0), m, o, "u") :
     m \in {null, Some(At(1, 0, 0))}, o \in {"Self", "Org", "other"}}

UniCommits ==
  {Commit(IF own THEN "self" ELSE "other", "a", own, At(0, 10, 0), FALSE, <<>>) :
     own \in BOOLEAN}

UniUserInfos == {null, Some(UserInfoOf(<<>>)), Some(UserInfoOf(<<"org">>))}

InitUni ==
  \E ps \in SeqsUpTo(UniPrs, MaxPrs),
     cms \in {null} \cup {Some(cs) : cs \in SeqsUpTo(UniCommits, MaxCommits)},
     info \in UniUserInfos, inclOrg \in BOOLEAN :
    /\ options = [EmptyOptions EXCEPT !.prs = ps, !.commits = cms, !.userInfo = info]
    /\ tzOffsetMinutes = 0
    /\ hist = NoHist
    /\ includeOrgRepos = inclOrg
    /\ pc = "ready"
    /\ ret = NoRet

CallComputeUniIndexV0 ==
  /\ pc = "ready"
  /\ Return("computeUniIndexV0",
            ComputeUniIndexV0(options.prs, options.commits, options.login,
                              options.userInfo, includeOrgRepos))

NextUni == CallComputeUniIndexV0

SpecUni == InitUni /\ [][NextUni]_vars

\* 1 for a pull request, 2 for a merged one.
PrScore(pr) == IF pr.mergedAt # null THEN 2 ELSE 1

RECURSIVE SumScores(_, _)
SumScores(ps, I) ==
  IF I = {} THEN 0
  ELSE LET i == CHOOSE i \in I : TRUE IN PrScore(ps[i]) + SumScores(ps, I \ {i})

\* The pull requests on the subject's own side: the owner is the login or, when
\* organizations are included, one of the subject's organizations.
OwnedSidePrs(ps, lg, info, inclOrg) ==
  {i \in 1..Len(ps) :
     \/ SameLogin(ps[i].repository.owner.login, lg)
     \/ /\ inclOrg
        /\ info # null
        /\ \E k \in 1..Len(info[1].organizations) :
             SameLogin(ps[i].repository.owner.login, info[1].organizations[k].login)}

UniOwned ==
  LET cs == OrEmpty(options.commits)
  IN Cardinality({i \in 1..Len(cs) : cs[i].repo.isOwn})
       + SumScores(options.prs,
           OwnedSidePrs(options.prs, options.login, options.userInfo, includeOrgRepos))

UniExternal ==
  SumScores(options.prs,
    (1..Len(options.prs))
      \ OwnedSidePrs(options.prs, options.login, options.userInfo, includeOrgRepos))

UniValueAsClaimed ==
  IF UniOwned + UniExternal = 0 THEN ret.value.value = null
  ELSE /\ ret.value.value # null
       /\ RatEq(ret.value.value, <<UniOwned, UniOwned + UniExternal>>)

UniEvents == Len(OrEmpty(options.commits)) + Len(options.prs)

\* C10 as claimed: the value of computeUniIndexV0 is owned / (owned + external)
\* with the activities scored as above, null when the total is zero, and the
\* sample size is the commit count plus the PR count.
C10_UniIndexOriginal ==
  Returned("computeUniIndexV0") =>
    UniValueAsClaimed /\ ret.value.sample_size = UniEvents

\* C10 as amended: the value of computeUniIndexV0 is owned / (owned + external)
\* with the activities scored as above, null when the total is zero; the sample
\* size is the commit count plus the PR count when the total activity is
\* positive, and 0 when it is zero.
C10_UniIndex ==
  Returned("computeUniIndexV0") =>
    /\ UniValueAsClaimed
    /\ ret.value.sample_size = IF UniOwned + UniExternal = 0 THEN 0 ELSE UniEvents

\* computeUniIndexV0 ran on commits outside the subject's repositories and no
\* pull request: there are events and no activity.
C10_Witness ==
  /\ Returned("computeUniIndexV0")
  /\ UniEvents > 0
  /\ ret.value.value = null
  /\ ret.value.sample_size = 0

(***************************************************************************)
(* analyzeAll called on the output of the scan stage.                      *)
(***************************************************************************)
\* The records of one call, all lists together.
MaxRecords == 3

AllRepos ==
  { Repo("self", "a", FALSE, 1, Some("TypeScript"),
         <<Edge("TypeScript", 3), Edge("JavaScript", 1)>>, <<"typescript">>,
         At(0, 0, 0), Some(At(2, 0, 0))),
    Repo("Self", "c", FALSE, 0, Some("Go"),
         <<Edge("Go", 1), Edge("TypeScript", 1)>>, <<"cli">>, At(1, 0, 0), null),
    Repo("self", "e", TRUE, 3, Some("TypeScript"), <<>>, <<>>,
         At(0, 12, 0), Some(At(1, 0, 0))),
    Repo("other", "d", FALSE, 0, null, <<>>, <<>>, At(0, 6, 0), null) }

AllPrs ==
  { PullRequest(At(0, 10, 45), Some(At(1, 0, 0)), "Self", "https://github.com/self/a/pull/1"),
    PullRequest(At(0, 12, 45), null, "other", "https://github.com/other/d/pull/2"),
    PullRequest(BadTimestamp, Some(At(1, 0, 0)), "Org", "https://github.com/org/x/pull/3") }

AllCommits ==
  { Commit("self", "e", TRUE, At(0, 23, 30), FALSE,
           <<AssociatedPR(TRUE, Some([owner |-> "other", name |-> "e",
                                      stargazerCount |-> 10]), TRUE)>>),
    Commit("other", "d", FALSE, At(0, 10, 45), FALSE, <<>>),
    Commit("self", "a", TRUE, At(0, 12, 45), TRUE, <<>>) }

Contributions(issues, reviews, commits, prs, repos) ==
  [totalIssueContributions |-> issues,
   totalPullRequestReviewContributions |-> reviews,
   totalCommitContributions |-> commits,
   totalPullRequestContributions |-> prs,
   totalRepositoryContributions |-> repos]

\* A line of text without images and links.
TextLine(chars, langs, eco, topics) ==
  [chars |-> chars, langs |-> langs, eco |-> eco, topics |-> topics,
   mdImages |-> <<>>, htmlImages |-> <<>>, repoUrls |-> <<>>, markup |-> FALSE]

\* The optional inputs of a call: contributions, userInfo, tzOverride and
\* profileReadmeMarkdown.
AllExtras ==
  { [contributions |-> null, userInfo |-> null, tzOverride |-> null,
     profileReadmeMarkdown |-> null],
    [contributions |-> Some(Contributions(0, 0, 0, 0, 0)),
     userInfo |-> Some(UserInfoOf(<<"org">>)),
     tzOverride |-> Some(<<"+", "0", "9", ":", "3", "0">>),
     profileReadmeMarkdown |->
       Some(<<TextLine(30, {"TypeScript", "Rust"}, FALSE, {"cli"})>>)],
    [contributions |-> Some(Contributions(2, 1, 5, 1, 1)),
     userInfo |-> Some(UserInfoOf(<<>>)),
     tzOverride |-> Some(AsiaShanghai),
     profileReadmeMarkdown |-> Some(<<TextLine(0, {}, FALSE, {})>>)] }

InitAnalyzeAll ==
  \E rs \in SeqsUpTo(AllRepos, MaxRepos), ps \in SeqsUpTo(AllPrs, MaxPrs),
     cs \in SeqsUpTo(AllCommits, MaxCommits) :
    /\ Len(rs) + Len(ps) + Len(cs) <= MaxRecords
    /\ \E x \in AllExtras, cms \in {null, Some(cs)} :
         /\ cms = null => cs = <<>>
         /\ Idle([login |-> "self", repos |-> rs, prs |-> ps, commits |-> cms,
                  contributions |-> x.contributions, tzOverride |-> x.tzOverride,
                  profileReadmeMarkdown |-> x.profileReadmeMarkdown,
                  userInfo |-> x.userInfo])

CallAnalyzeAll ==
  /\ pc = "ready"
  /\ Return("analyzeAll", AnalyzeAll(options))

NextAnalyzeAll == CallAnalyzeAll

SpecAnalyzeAll == InitAnalyzeAll /\ [][NextAnalyzeAll]_vars

(***************************************************************************)
(* Claims on the Profile of analyzeAll.                                    *)
(***************************************************************************)
NullIffNoSample(value, sampleSize) == (value = null) <=> (sampleSize = 0)

\* C1: in the Profile of analyzeAll the value of each ratio metric is null
\* exactly when its sample size is 0: uoi, external_pr_accept_rate, uni_index,
\* night_ratio, focus_ratio and community_engagement.
C1_NullIffSampleZero ==
  Returned("analyzeAll") =>
    LET p == ret.value.profile
    IN /\ NullIffNoSample(p.uoi, p.uoi_sample_size)
       /\ NullIffNoSample(p.external_pr_accept_rate, p.external_pr_sample_size)
       /\ NullIffNoSample(p.uni_index.value, p.uni_index.sample_size)
       /\ NullIffNoSample(p.night_ratio, p.night_ratio_sample_size)
       /\ NullIffNoSample(p.focus_ratio, p.focus_ratio_sample_size)
       /\ NullIffNoSample(p.community_engagement.value, p.community_engagement.sample_size)

\* analyzeAll ran on commits outside the subject's repositories and no pull
\* request: uni_index has no value although there are events, night_ratio has
\* a value.
C1_Witness ==
  /\ Returned("analyzeAll")
  /\ options.prs = <<>>
  /\ options.commits # null /\ options.commits # Some(<<>>)
  /\ ret.value.profile.uni_index.value = null
  /\ ret.value.profile.night_ratio # null

\* The input of analyzeAll without any data.
NoData ==
  /\ options.repos = <<>>
  /\ options.prs = <<>>
  /\ options.commits = null
  /\ options.contributions = null
  /\ options.userInfo = null
  /\ options.profileReadmeMarkdown = null
  /\ options.tzOverride = null

RepoWeight(repo) ==
  IF repo.stargazerCount = 0 THEN OneMilli ELSE Log1pMilli(repo.stargazerCount)

RECURSIVE SumOver(_, _)
SumOver(f, I) ==
  IF I = {} THEN 0
  ELSE LET i == CHOOSE i \in I : TRUE IN f[i] + SumOver(f, I \ {i})

RECURSIVE ProductOver(_, _)
ProductOver(f, I) ==
  IF I = {} THEN 1
  ELSE LET i == CHOOSE i \in I : TRUE IN f[i] * ProductOver(f, I \ {i})

SkillLangs == Range(KNOWN_LANGUAGES)

\* skills holds language l with weight n / d when n > 0, and not at all when
\* n = 0.
SkillIs(skills, l, n, d) ==
  IF n = 0 THEN \A k \in 1..Len(skills) : skills[k].lang # l
  ELSE \E k \in 1..Len(skills) :
         /\ skills[k].lang = l
         /\ RatEq(skills[k].weight, <<n, d>>)
         /\ \A j \in 1..Len(skills) : skills[j].lang = l => j = k

\* The bytes of language l in a repository; a repository without a byte
\* breakdown counts as one byte of its primary language.
BytesOf(repo, l) ==
  IF repo.languages # <<>>
    THEN SumSizes(SelectSeq(repo.languages, LAMBDA e : e.name = l))
    ELSE IF repo.primaryLanguage = Some(l) THEN 1 ELSE 0

BytesTotal(repo) == SumOver([l \in SkillLangs |-> BytesOf(repo, l)], SkillLangs)

\* C5 as claimed: in profile.skills every repository contributes its weight w,
\* split among its languages in proportion to their share of the repository's
\* bytes, and all of w to its primary language only when it has no byte
\* breakdown.
C5_SkillsByByteShare ==
  Returned("analyzeAll") =>
    LET rs == options.repos
        I == {i \in 1..Len(rs) : BytesTotal(rs[i]) > 0}
        scale == ProductOver([i \in I |-> BytesTotal(rs[i])], I)
        total == scale * SumOver([i \in I |-> RepoWeight(rs[i])], I)
    IN \A l \in SkillLangs :
         SkillIs(ret.value.profile.skills, l,
           SumOver([i \in I |->
                      RepoWeight(rs[i]) * BytesOf(rs[i], l) * (scale \div BytesTotal(rs[i]))], I),
           total)

\* C5 as amended: in profile.skills every repository with a primary language
\* contributes all of its weight w to that primary language, with or without a
\* byte breakdown; a repository without primary language contributes nothing.
C5_SkillsByPrimaryLanguage ==
  Returned("analyzeAll") =>
    LET rs == options.repos
        I == {i \in 1..Len(rs) : rs[i].primaryLanguage # null}
        total == SumOver([i \in I |-> RepoWeight(rs[i])], I)
    IN /\ \A l \in SkillLangs :
            SkillIs(ret.value.profile.skills, l,
              SumOver([i \in I |->
                         IF rs[i].primaryLanguage = Some(l) THEN RepoWeight(rs[i]) ELSE 0], I),
              total)
       /\ \A k \in 1..Len(ret.value.profile.skills) :
            ret.value.profile.skills[k].lang \in SkillLangs

\* analyzeAll ran on a repository without stars and on one whose byte breakdown
\* names a language that is not its primary language and not in the skills.
C5_Witness ==
  /\ Returned("analyzeAll")
  /\ \E i \in 1..Len(options.repos) :
       options.repos[i].stargazerCount = 0 /\ options.repos[i].primaryLanguage # null
  /\ \E i \in 1..Len(options.repos) :
       \E e \in 1..Len(options.repos[i].languages) :
         \A k \in 1..Len(ret.value.profile.skills) :
           ret.value.profile.skills[k].lang # options.repos[i].languages[e].name

(***************************************************************************)
(* computeGritFactor called on a repository list and a login.              *)
(***************************************************************************)
GritRepo(owner, name, isFork, stars, pushedAt) ==
  Repo(owner, name, isFork, stars, null, <<>>, <<>>, At(1, 0, 0), pushedAt)

GritRepos ==
  { GritRepo("self", "long", FALSE, 0, Some(At(91, 0, 0))),
    GritRepo("SELF", "long4", FALSE, 4, Some(At(91, 0, 0))),
    GritRepo("Self", "gem", FALSE, 5, Some(At(90, 23, 59))),
    GritRepo("self", "fresh", FALSE, 5, null),
    GritRepo("self", "churn", FALSE, 4, Some(At(90, 23, 59))),
    GritRepo("self", "back", FALSE, 0, Some(At(0, 0, 0))),
    GritRepo("self", "bad", FALSE, 0, Some(BadTimestamp)),
    GritRepo("self", "forked", TRUE, 5, Some(At(91, 0, 0))),
    GritRepo("other", "external", FALSE, 5, Some(At(91, 0, 0))) }

InitGrit ==
  \E rs \in SeqsUpTo(GritRepos, MaxRepos), lg \in {"self", "Self"} :
    Idle([EmptyOptions EXCEPT !.repos = rs, !.login = lg])

CallComputeGritFactor ==
  /\ pc = "ready"
  /\ Return("computeGritFactor", ComputeGritFactor(options.repos, options.login))

NextGrit == CallComputeGritFactor

SpecGrit == InitGrit /\ [][NextGrit]_vars

(***************************************************************************)
(* Claims on computeGritFactor.                                            *)
(***************************************************************************)
\* The original repositories: not a fork, owned by the login.
Originals(rs, lg) ==
  {i \in 1..Len(rs) : ~rs[i].isFork /\ SameLogin(rs[i].owner.login, lg)}

\* C11: the three counts of computeGritFactor add up to sample_size, and
\* sample_size is the number of non-fork repositories owned by the login.
C11_GritCountsSum ==
  Returned("computeGritFactor") =>
    /\ ret.value.long_term_count + ret.value.gem_count + ret.value.churn_count
         = ret.value.sample_size
    /\ ret.value.sample_size = Cardinality(Originals(options.repos, options.login))

\* computeGritFactor ran on a list with an original repository and a fork of
\* the login.
C11_Witness ==
  /\ Returned("computeGritFactor")
  /\ ret.value.sample_size > 0
  /\ \E i \in 1..Len(options.repos) :
       options.repos[i].isFork /\ SameLogin(options.repos[i].owner.login, options.login)

\* Whole days from created-at to pushed-at; 0 when pushed-at is absent, is no
\* date, or is earlier than created-at.
WholeDays(repo) ==
  IF repo.pushedAt = null \/ repo.pushedAt[1] < 0 \/ repo.pushedAt[1] < repo.createdAt
    THEN 0
    ELSE CHOOSE d \in 0..200 :
           d * 24 * 60 <= repo.pushedAt[1] - repo.createdAt
             /\ repo.pushedAt[1] - repo.createdAt < (d + 1) * 24 * 60

\* C12: every original repository is Long Term when its lifespan is at least 90
\* days whatever its stars, Gem when the lifespan is below 90 days and it has at
\* least 5 stars, Churn otherwise; value = (Long Term + Gem) / originals, null
\* without originals; forks and repositories of other owners are not counted.
C12_GritClassification ==
  Returned("computeGritFactor") =>
    LET rs == options.repos
        O == Originals(rs, options.login)
        longTerm == {i \in O : WholeDays(rs[i]) >= 90}
        gem == {i \in O : WholeDays(rs[i]) < 90 /\ rs[i].stargazerCount >= 5}
        churn == O \ (longTerm \cup gem)
    IN /\ ret.value.long_term_count = Cardinality(longTerm)
       /\ ret.value.gem_count = Cardinality(gem)
       /\ ret.value.churn_count = Cardinality(churn)
       /\ IF O = {} THEN ret.value.value = null
          ELSE /\ ret.value.value # null
               /\ RatEq(ret.value.value,
                        <<Cardinality(longTerm) + Cardinality(gem), Cardinality(O)>>)

\* computeGritFactor counted a repository of exactly 5 stars as Gem next to a
\* repository of another owner.
C12_Witness ==
  /\ Returned("computeGritFactor")
  /\ ret.value.gem_count > 0
  /\ \E i \in 1..Len(options.repos) :
       ~SameLogin(options.repos[i].owner.login, options.login)
  /\ \A i \in 1..Len(options.repos) : options.repos[i].stargazerCount <= 5

(***************************************************************************)
(* computeForkDestiny called on a repository list, a commit list and a     *)
(* login.                                                                  *)
(***************************************************************************)
ForkRepo(owner, name, isFork, stars) ==
  Repo(owner, name, isFork, stars, null, <<>>, <<>>, At(0, 0, 0), null)

ForkRepos ==
  { ForkRepo("self", "e", TRUE, 10),
    ForkRepo("Self", "e", TRUE, 50),
    ForkRepo("self", "v", TRUE, 50),
    ForkRepo("self", "r", TRUE, 3),
    ForkRepo("self", "n", TRUE, 0),
    ForkRepo("other", "e", TRUE, 50),
    ForkRepo("self", "a", FALSE, 50) }

BaseRepo(owner, stars) == Some([owner |-> owner, name |-> "core", stargazerCount |-> stars])

ForkCommit(owner, name, associatedPRs) ==
  Commit(owner, name, TRUE, At(0, 10, 0), FALSE, associatedPRs)

ForkCommits ==
  { ForkCommit("self", "e", <<AssociatedPR(TRUE, BaseRepo("other", 200), TRUE)>>),
    ForkCommit("Self", "e", <<AssociatedPR(TRUE, BaseRepo("Self", 200), TRUE)>>),
    ForkCommit("self", "e", <<AssociatedPR(TRUE, BaseRepo("other", 0), FALSE),
                              AssociatedPR(TRUE, BaseRepo("Other", 10), FALSE)>>),
    ForkCommit("self", "r", <<AssociatedPR(TRUE, BaseRepo("other", 10), FALSE)>>),
    ForkCommit("self", "r", <<AssociatedPR(TRUE, BaseRepo("other", 20), FALSE)>>),
    ForkCommit("self", "n", <<AssociatedPR(FALSE, BaseRepo("self", 0), TRUE),
                              AssociatedPR(TRUE, null, TRUE)>>),
    ForkCommit("other", "e", <<AssociatedPR(TRUE, BaseRepo("org", 200), TRUE)>>) }

InitFork ==
  \E rs \in SeqsUpTo(ForkRepos, MaxRepos),
     cms \in {null} \cup {Some(cs) : cs \in SeqsUpTo(ForkCommits, MaxCommits)} :
    Idle([EmptyOptions EXCEPT !.repos = rs, !.commits = cms])

CallComputeForkDestiny ==
  /\ pc = "ready"
  /\ Return("computeForkDestiny",
            ComputeForkDestiny(options.repos, options.commits, options.login))

NextFork == CallComputeForkDestiny

SpecFork == InitFork /\ [][NextFork]_vars

(***************************************************************************)
(* Claims on computeForkDestiny.                                           *)
(***************************************************************************)
\* The fork records of the list that the login owns.
OwnedForkRecords(rs, lg) ==
  {i \in 1..Len(rs) : rs[i].isFork /\ SameLogin(rs[i].owner.login, lg)}

StarsOver(rs, I) == SumOver([i \in I |-> rs[i].stargazerCount], I)

\* C13: the three fork counts of computeForkDestiny add up to total_forks,
\* total_forks is the number of fork records of the list owned by the login, and
\* total_fork_stars is the sum of the stars of those records.
C13_ForkCountsSum ==
  Returned("computeForkDestiny") =>
    LET F == OwnedForkRecords(options.repos, options.login)
    IN /\ ret.value.contributor_forks + ret.value.variant_forks + ret.value.noise_forks
            = ret.value.total_forks
       /\ ret.value.total_forks = Cardinality(F)
       /\ ret.value.total_fork_stars = StarsOver(options.repos, F)

\* The associated PRs of the commits recorded for a fork that cross repositories
\* and whose base repository belongs to another owner than the login.
UpstreamPrs(repo, cs, lg) ==
  UNION {{cs[k].associatedPRs[j] : j \in {j \in 1..Len(cs[k].associatedPRs) :
             LET pr == cs[k].associatedPRs[j]
             IN /\ pr.isCrossRepository
                /\ pr.baseRepo # null
                /\ ~SameLogin(pr.baseRepo[1].owner, lg)}} :
         k \in {k \in 1..Len(cs) : /\ SameLogin(cs[k].repo.owner, repo.owner.login)
                                    /\ cs[k].repo.name = repo.name}}

IsContributor(repo, cs, lg) == \E pr \in UpstreamPrs(repo, cs, lg) : pr.isMerged

IsVariant(repo, cs, lg) ==
  /\ ~IsContributor(repo, cs, lg)
  /\ \/ repo.stargazerCount >= 50
     \/ \E pr \in UpstreamPrs(repo, cs, lg) :
          /\ \A q \in UpstreamPrs(repo, cs, lg) :
               q.baseRepo[1].stargazerCount <= pr.baseRepo[1].stargazerCount
          /\ pr.baseRepo[1].stargazerCount > 0
          /\ 10 * repo.stargazerCount >= 3 * pr.baseRepo[1].stargazerCount

\* C14: each owned fork is Contributor when a commit recorded for it has a
\* merged cross-repository PR to a base repository of another owner, otherwise
\* Variant when it has at least 50 stars or at least 0.3 times the stars of the
\* most starred such base repository it targeted, otherwise Noise;
\* variant_fork_stars is the sum of the stars of the Variant forks.
C14_ForkClassification ==
  Returned("computeForkDestiny") =>
    LET rs == options.repos
        cs == OrEmpty(options.commits)
        F == OwnedForkRecords(rs, options.login)
        contributor == {i \in F : IsContributor(rs[i], cs, options.login)}
        variant == {i \in F : IsVariant(rs[i], cs, options.login)}
    IN /\ ret.value.contributor_forks = Cardinality(contributor)
       /\ ret.value.variant_forks = Cardinality(variant)
       /\ ret.value.noise_forks = Cardinality(F \ (contributor \cup variant))
       /\ ret.value.variant_fork_stars = StarsOver(rs, variant)

(***************************************************************************)
(* computeContributionMomentum on contribution summaries.  A calendar is   *)
(* a run of older weeks, a run of empty weeks and a run of latest weeks,   *)
(* so that calendars shorter and longer than the 12-week window occur and  *)
(* the ratios 0.1, 0.5 and 1.5 are met exactly.                            *)
(***************************************************************************)
MaxWeeks == 2

OlderWeeks == { <<0, 0>>, <<5>>, <<3, 4>>, <<39>> }

LatestWeeks == { <<0>>, <<1>>, <<2, 1>> }

RECURSIVE EmptyWeeks(_)
EmptyWeeks(n) == IF n = 0 THEN <<>> ELSE <<<<0>>>> \o EmptyWeeks(n - 1)

Calendar(totalContributions, weeks) ==
  Some([totalContributions |-> totalContributions, weeks |-> weeks])

MomentumSummary(calendar) == Some([contributionCalendar |-> calendar])

Calendars ==
  { Calendar(t, older \o EmptyWeeks(n) \o latest) :
      t \in {0, 5}, n \in {0, 10, 11},
      older \in SeqsUpTo(OlderWeeks, MaxWeeks),
      latest \in SeqsUpTo(LatestWeeks, MaxWeeks) }

MomentumInputs ==
  {null, MomentumSummary(null)} \cup { MomentumSummary(c) : c \in Calendars }

InitMomentum ==
  \E contrib \in MomentumInputs :
    Idle([EmptyOptions EXCEPT !.contributions = contrib])

CallComputeContributionMomentum ==
  /\ pc = "ready"
  /\ LET result == ComputeContributionMomentum(options.contributions)
     IN IF Threw(result)
          THEN Raise("computeContributionMomentum", result)
          ELSE Return("computeContributionMomentum", result)

NextMomentum == CallComputeContributionMomentum

SpecMomentum == InitMomentum /\ [][NextMomentum]_vars

(***************************************************************************)
(* Claims on computeContributionMomentum.                                  *)
(***************************************************************************)
HasCalendar(contrib) ==
  contrib # null /\ contrib[1].contributionCalendar # null

\* The sum of the daily counts of the weeks W of a calendar.
DailyTotal(weeks, W) ==
  SumOver([w \in W |-> SumOver(weeks[w], DOMAIN weeks[w])], W)

LatestWindow(weeks) == {w \in DOMAIN weeks : w > Len(weeks) - 12}

\* The status the documented bands give to the ratio recent / (year / 4).
BandOf(recent, year) ==
  IF year = 0 \/ 40 * recent < year THEN "ghost"
  ELSE IF 8 * recent < year THEN "cooling_down"
  ELSE IF 8 * recent > 3 * year THEN "accelerating"
  ELSE "steady"

\* C15: for a summary with a calendar, year_total is the sum of all daily
\* counts, recent_quarter_total the sum over the latest 12 weeks (all of them
\* when there are fewer), value is recent / (year / 4), null when the year
\* total is 0, and the status is the one band the value falls in: ghost for a
\* year total of 0 or a value below 0.1, cooling_down for 0.1 <= value < 0.5,
\* accelerating above 1.5, steady otherwise.
C15_MomentumBands ==
  (pc # "ready" /\ ret.fn = "computeContributionMomentum"
     /\ HasCalendar(options.contributions)) =>
    LET weeks == options.contributions[1].contributionCalendar[1].weeks
        year == DailyTotal(weeks, DOMAIN weeks)
        recent == DailyTotal(weeks, LatestWindow(weeks))
        r == ret.value
    IN /\ pc = "done"
       /\ r.year_total = year
       /\ r.recent_quarter_total = recent
       /\ r.status = BandOf(recent, year)
       /\ IF year = 0 THEN r.value = null
          ELSE r.value # null /\ r.value[1] * year = 4 * recent * r.value[2]

\* C16: when the calendar data is missing, because the summary is absent or
\* because it carries no contribution calendar, computeContributionMomentum
\* returns status unknown and value null and does not raise.
C16_MomentumUnknown ==
  (pc # "ready" /\ ret.fn = "computeContributionMomentum"
     /\ ~HasCalendar(options.contributions)) =>
    /\ pc = "done"
    /\ ret.value.status = "unknown"
    /\ ret.value.value = null

(***************************************************************************)
(* analyzeProfileReadme on self-introduction texts: lines of text at the   *)
(* 80 and 140 character limits, images in markdown and HTML syntax with    *)
(* and without alt text, blank lines and lines of markup only.             *)
(***************************************************************************)
MaxLines == 3

ReadmeLine(chars, mdImages, htmlImages, markup) ==
  [chars |-> chars, langs |-> <<>>, eco |-> FALSE, topics |-> <<>>,
   mdImages |-> mdImages, htmlImages |-> htmlImages, repoUrls |-> <<>>,
   markup |-> markup]

ReadmeLines ==
  { ReadmeLine(39, <<>>, <<>>, FALSE),
    ReadmeLine(41, <<>>, <<>>, FALSE),
    ReadmeLine(140, <<>>, <<>>, FALSE),
    ReadmeLine(141, <<>>, <<>>, FALSE),
    ReadmeLine(0, <<"GitHub Stats">>, <<>>, FALSE),
    ReadmeLine(0, <<"">>, <<>>, FALSE),
    ReadmeLine(0, <<>>, <<Some("Other badge")>>, FALSE),
    ReadmeLine(0, <<>>, <<null>>, FALSE),
    ReadmeLine(39, <<"Badge">>, <<>>, FALSE),
    ReadmeLine(0, <<>>, <<>>, TRUE),
    ReadmeLine(0, <<>>, <<>>, FALSE) }

InitReadme ==
  \E markdown \in {null} \cup { Some(doc) : doc \in SeqsUpTo(ReadmeLines, MaxLines) } :
    Idle([EmptyOptions EXCEPT !.profileReadmeMarkdown = markdown])

CallAnalyzeProfileReadme ==
  /\ pc = "ready"
  /\ Return("analyzeProfileReadme", AnalyzeProfileReadme(options.profileReadmeMarkdown))

NextReadme == CallAnalyzeProfileReadme

SpecReadme == InitReadme /\ [][NextReadme]_vars

(***************************************************************************)
(* Claims on analyzeProfileReadme.                                         *)
(***************************************************************************)
\* The text is present and holds something besides white space.
NonBlankText(markdown) ==
  /\ markdown # null
  /\ \E i \in DOMAIN markdown[1] :
       LET line == markdown[1][i]
       IN line.chars > 0 \/ line.mdImages # <<>> \/ line.htmlImages # <<>> \/ line.markup

\* The images of a text, in either syntax, with or without alt text.
ImagesIn(doc) ==
  SumOver([i \in DOMAIN doc |-> Len(doc[i].mdImages) + Len(doc[i].htmlImages)],
          DOMAIN doc)

TextLinesIn(doc) == Cardinality({i \in DOMAIN doc : doc[i].chars > 0})

TextCharsIn(doc) == SumOver([i \in DOMAIN doc |-> doc[i].chars], DOMAIN doc)

\* C17: for a non-blank text, one_liner is returned only for at most 1 text
\* line, at most 140 text characters and no image; short_bio only for at least
\* 2 text lines, at least 80 text characters and no image; visual_dashboard
\* whenever the text holds images, with or without alt text, and they are at
\* least as many as its text lines; mixed in every other case.
C17_ReadmeStyle ==
  (Returned("analyzeProfileReadme") /\ NonBlankText(options.profileReadmeMarkdown)) =>
    LET doc == options.profileReadmeMarkdown[1]
        images == ImagesIn(doc)
        lines == TextLinesIn(doc)
        chars == TextCharsIn(doc)
        oneLiner == lines <= 1 /\ chars <= 140 /\ images = 0
        shortBio == lines >= 2 /\ chars >= 80 /\ images = 0
        dashboard == images > 0 /\ images >= lines
        style == ret.value.style
    IN /\ style \in {"one_liner", "short_bio", "visual_dashboard", "mixed"}
       /\ style = "one_liner" => oneLiner
       /\ style = "short_bio" => shortBio
       /\ dashboard => style = "visual_dashboard"
       /\ (~oneLiner /\ ~shortBio /\ ~dashboard) => style = "mixed"

\* C30: when the daily counts of the calendar are non-negative with a
\* positive sum, the value of computeContributionMomentum lies between 0 and
\* 4; and when the calendar holds 12 weeks or fewer the recent-quarter total
\* is the year total, the value exactly 4 and the status accelerating.
C30_MomentumRange ==
  (Returned("computeContributionMomentum") /\ HasCalendar(options.contributions)) =>
    LET weeks == options.contributions[1].contributionCalendar[1].weeks
        r == ret.value
    IN (/\ \A w \in DOMAIN weeks : \A d \in DOMAIN weeks[w] : weeks[w][d] >= 0
        /\ DailyTotal(weeks, DOMAIN weeks) > 0) =>
         /\ r.value # null
         /\ r.value[2] > 0
         /\ 0 <= r.value[1]
         /\ r.value[1] <= 4 * r.value[2]
         /\ Len(weeks) <= 12 =>
              /\ r.recent_quarter_total = r.year_total
              /\ r.value[1] = 4 * r.value[2]
              /\ r.status = "accelerating"

\* A calendar of exactly 12 weeks whose only contributions are in its first
\* week: the value is 4 and the status accelerating.
C30_Witness ==
  /\ Returned("computeContributionMomentum")
  /\ HasCalendar(options.contributions)
  /\ LET weeks == options.contributions[1].contributionCalendar[1].weeks
     IN /\ Len(weeks) = 12
        /\ DailyTotal(weeks, {1}) > 0
        /\ DailyTotal(weeks, 2..12) = 0
  /\ ret.value.value # null
  /\ ret.value.value[1] = 4 * ret.value.value[2]
  /\ ret.value.status = "accelerating"

(***************************************************************************)
(* computeReadmeConsistency on the analysis of a one-line text that names  *)
(* languages, and on skills whose language names differ from them in case. *)
(***************************************************************************)
AssertedLangs == {"TypeScript", "Python", "Go", "Rust", "Java"}

MetricLangs == <<"typescript", "PYTHON", "Go", "Rust", "java", "Haskell">>

Skill(lang) == [lang |-> lang, weight |-> <<1, 6>>]

SkillsOf(S) ==
  LET langs == FilterSeq(MetricLangs, S)
  IN [i \in 1..Len(langs) |-> Skill(langs[i])]

ReadmeInputs ==
  {AnalyzeProfileReadme(null), AnalyzeProfileReadme(Some(<<ReadmeLine(0, <<>>, <<>>, FALSE)>>))}
    \cup { AnalyzeProfileReadme(Some(<<TextLine(30, L, eco, {})>>)) :
             L \in SUBSET AssertedLangs, eco \in BOOLEAN }

InitConsistency ==
  \E readme \in ReadmeInputs, S \in SUBSET Range(MetricLangs) :
    Idle([readme |-> readme, skills |-> SkillsOf(S), login |-> "self", repos |-> <<>>])

CallComputeReadmeConsistency ==
  /\ pc = "ready"
  /\ Return("computeReadmeConsistency",
            ComputeReadmeConsistency(options.readme, options.skills, options.login,
                                     options.repos))

NextConsistency == CallComputeReadmeConsistency

SpecConsistency == InitConsistency /\ [][NextConsistency]_vars

(***************************************************************************)
(* Claims on computeReadmeConsistency.                                     *)
(***************************************************************************)
LangClasses ==
  { {"TypeScript", "typescript"}, {"Python", "PYTHON"}, {"Java", "java"} }

\* Two language names are equal up to the case of their letters.
SameLang(a, b) == a = b \/ \E c \in LangClasses : a \in c /\ b \in c

\* The languages the analysed text asserts.
Asserted(readme) ==
  IF readme.plain_text = null THEN {}
  ELSE UNION { readme.plain_text[1][i].langs
                 \cup (IF readme.plain_text[1][i].eco THEN {"JavaScript"} ELSE {}) :
               i \in DOMAIN readme.plain_text[1] }

\* The asserted languages that occur among the measured ones.
Supported(readme, skills) ==
  {l \in Asserted(readme) : \E i \in DOMAIN skills : SameLang(l, skills[i].lang)}

\* C18: the supported ratio is the number of asserted languages that occur,
\* up to case, among the measured languages over the number of asserted
\* languages, and null when none is asserted; the level is unknown exactly
\* when none is asserted, otherwise strong iff ratio >= 0.8, partial iff
\* 0.4 <= ratio < 0.8, poor iff ratio < 0.4; language_overlap is a subset of
\* readme_languages.
C18_ReadmeConsistency ==
  Returned("computeReadmeConsistency") =>
    LET r == ret.value
        asserted == Cardinality(Asserted(options.readme))
        supported == Cardinality(Supported(options.readme, options.skills))
        ratio == r.readme_language_supported_ratio
        level == r.readme_vs_skills_consistency
    IN /\ Len(r.readme_languages) = asserted
       /\ Range(r.readme_languages) = Asserted(options.readme)
       /\ ratio = null <=> asserted = 0
       /\ ratio # null => ratio[1] * asserted = supported * ratio[2]
       /\ level \in {"unknown", "strong", "partial", "poor"}
       /\ level = "unknown" <=> asserted = 0
       /\ asserted > 0 =>
            /\ level = "strong" <=> 10 * supported >= 8 * asserted
            /\ level = "partial" <=> (10 * supported >= 4 * asserted
                                        /\ 10 * supported < 8 * asserted)
            /\ level = "poor" <=> 10 * supported < 4 * asserted
       /\ Range(r.language_overlap) \subseteq Range(r.readme_languages)

\* Four of five asserted languages are measured, three of them under a name
\* of another case: the ratio is 0.8 and the level strong.
C18_Witness ==
  /\ Returned("computeReadmeConsistency")
  /\ Len(ret.value.readme_languages) = 5
  /\ Len(ret.value.language_overlap) = 4
  /\ \E i \in DOMAIN options.skills : options.skills[i].lang = "typescript"
  /\ "TypeScript" \in Range(ret.value.language_overlap)
  /\ ret.value.readme_vs_skills_consistency = "strong"

(***************************************************************************)
(* computeProfileTags on the summaries that computeForkDestiny and         *)
(* computeCommunityEngagement produce, as analyzeAll passes them, and on a *)
(* community summary built by hand.                                        *)
(***************************************************************************)
MaxForks == 5

TagForkRepos ==
  { ForkRepo("self", "n", TRUE, 0),
    ForkRepo("Self", "n", TRUE, 0),
    ForkRepo("self", "r", TRUE, 3),
    ForkRepo("self", "s", TRUE, 1),
    ForkRepo("self", "t", TRUE, 2),
    ForkRepo("self", "v", TRUE, 50),
    ForkRepo("self", "e", TRUE, 10) }

TagForkCommits ==
  Some(<<ForkCommit("self", "e", <<AssociatedPR(TRUE, BaseRepo("other", 200), TRUE)>>)>>)

ForkSummaries ==
  { ComputeForkDestiny(rs, TagForkCommits, "self") : rs \in SeqsUpTo(TagForkRepos, MaxForks) }

TalkCounts == {0, 1, 2, 3, 5, 6, 7}

CodeCounts == {0, 3, 4, 7, 8, 9}

CommunitySummaries ==
  { ComputeCommunityEngagement(null),
    [value |-> null, talk_events |-> 5, code_events |-> 5, sample_size |-> 10] }
    \cup { ComputeCommunityEngagement(Some(Contributions(talk, 0, code, 0, 0))) :
             talk \in TalkCounts, code \in CodeCounts }

InitTags ==
  \E fork \in ForkSummaries, community \in CommunitySummaries :
    Idle([fork |-> fork, community |-> community])

CallComputeProfileTags ==
  /\ pc = "ready"
  /\ Return("computeProfileTags", ComputeProfileTags(options.fork, options.community))

NextTags == CallComputeProfileTags

SpecTags == InitTags /\ [][NextTags]_vars

(***************************************************************************)
(* Claims on computeProfileTags.                                           *)
(***************************************************************************)
TalkCodeTags == {"silent_maker", "talker", "vocal_contributor"}

Emitted(tag) == \E i \in DOMAIN ret.value : ret.value[i] = tag

EmittedOnce(tag) == Cardinality({i \in DOMAIN ret.value : ret.value[i] = tag}) = 1

\* C19: a talk/code tag is emitted only for a non-null community value with a
\* sample of at least 10, and then exactly one: silent_maker for a value of at
\* most 0.2, talker for a value of at least 0.6, vocal_contributor otherwise;
\* below 10 samples or with a null value none of the three is emitted.
C19_TalkCodeTag ==
  Returned("computeProfileTags") =>
    LET c == options.community
        talkTags == {i \in DOMAIN ret.value : ret.value[i] \in TalkCodeTags}
    IN IF c.value # null /\ c.sample_size >= 10
         THEN /\ Cardinality(talkTags) = 1
              /\ Emitted("silent_maker") <=> 10 * c.value[1] <= 2 * c.value[2]
              /\ Emitted("talker") <=> 10 * c.value[1] >= 6 * c.value[2]
              /\ Emitted("vocal_contributor") <=>
                   (10 * c.value[1] > 2 * c.value[2] /\ 10 * c.value[1] < 6 * c.value[2])
         ELSE talkTags = {}

\* The value 0.2 on exactly 10 samples is a silent_maker.
C19_Witness ==
  /\ Returned("computeProfileTags")
  /\ options.community.sample_size = 10
  /\ options.community.talk_events = 2
  /\ Emitted("silent_maker")

\* C20: on a Fork Destiny summary of computeForkDestiny, hard_forker is emitted
\* iff contributor_forks >= 1, variant_leader iff variant_forks >= 1, and
\* fork_cleaner iff total_forks >= 3, contributor_forks = 0, variant_forks = 0
\* and noise_forks / total_forks >= 0.8; fork_cleaner never comes with one of
\* the other two.
C20_ForkTags ==
  Returned("computeProfileTags") =>
    LET f == options.fork
    IN /\ Emitted("hard_forker") <=> f.contributor_forks >= 1
       /\ Emitted("variant_leader") <=> f.variant_forks >= 1
       /\ Emitted("fork_cleaner") <=>
            /\ f.total_forks >= 3
            /\ f.contributor_forks = 0
            /\ f.variant_forks = 0
            /\ 10 * f.noise_forks >= 8 * f.total_forks
       /\ Emitted("fork_cleaner") => ~Emitted("hard_forker") /\ ~Emitted("variant_leader")

\* Five fork records of which four are counted as noise: the ratio is 0.8 and
\* fork_cleaner is emitted.
C20_Witness ==
  /\ Returned("computeProfileTags")
  /\ options.fork.total_forks = 5
  /\ options.fork.noise_forks = 4
  /\ EmittedOnce("fork_cleaner")

(***************************************************************************)
(* Claims on the data_coverage of analyzeAll.                              *)
(***************************************************************************)
CreatedAts(xs) == {xs[i].createdAt : i \in DOMAIN xs}

PushedAts(rs) == {rs[i].pushedAt[1] : i \in {j \in DOMAIN rs : rs[j].pushedAt # null}}

Least(S) == CHOOSE x \in S : \A y \in S : x <= y

Greatest(S) == CHOOSE x \in S : \A y \in S : y <= x

OptionalOf(S, pick) == IF S = {} THEN null ELSE Some(pick)

\* C21: data_coverage depends on the raw lists only: repos_total and prs_total
\* are the lengths of the repository and the PR list; prs_time_range.first and
\* .last are the smallest and the largest createdAt of all PRs, both null iff
\* there is no PR; first_created_at is the smallest createdAt of the
\* repositories and last_pushed_at the largest non-null pushedAt, null iff no
\* repository has one.
C21_DataCoverage ==
  Returned("analyzeAll") =>
    LET d == ret.value.profile.data_coverage
        prCreated == CreatedAts(options.prs)
        repoCreated == CreatedAts(options.repos)
        pushed == PushedAts(options.repos)
    IN /\ d.repos_total = Len(options.repos)
       /\ d.prs_total = Len(options.prs)
       /\ d.prs_time_range.first = OptionalOf(prCreated, Least(prCreated))
       /\ d.prs_time_range.last = OptionalOf(prCreated, Greatest(prCreated))
       /\ (d.prs_time_range.first = null <=> options.prs = <<>>)
       /\ (d.prs_time_range.last = null <=> options.prs = <<>>)
       /\ d.repos_time_range.first_created_at = OptionalOf(repoCreated, Least(repoCreated))
       /\ d.repos_time_range.last_pushed_at = OptionalOf(pushed, Greatest(pushed))

\* A repository of another owner that was never pushed comes first, a fork
\* with a push second, and the only PR has an unusable timestamp.
C21_Witness ==
  /\ Returned("analyzeAll")
  /\ Len(options.repos) = 2
  /\ options.repos[1].pushedAt = null
  /\ options.repos[1].owner.login = "other"
  /\ options.repos[2].isFork
  /\ ret.value.profile.data_coverage.repos_time_range.last_pushed_at # null
  /\ Len(options.prs) = 1
  /\ options.prs[1].createdAt = BadTimestamp

(***************************************************************************)
(* parseTimezoneOffset on override strings: every +HH:MM and -HH:MM over   *)
(* four digits, the one known zone name, and strings that are neither.     *)
(***************************************************************************)
OffsetDigits == {"0", "1", "5", "9"}

OffsetStrings ==
  { <<sign, h1, h2, ":", m1, m2>> :
      sign \in {"+", "-"}, h1 \in OffsetDigits, h2 \in OffsetDigits,
      m1 \in OffsetDigits, m2 \in OffsetDigits }

OtherStrings ==
  { <<"i", "n", "v", "a", "l", "i", "d">>,
    <<"U", "T", "C">>,
    <<"a", "s", "i", "a", "/", "s", "h", "a", "n", "g", "h", "a", "i">>,
    <<"+", "9", ":", "3", "0">>,
    <<"0", "9", ":", "3", "0">>,
    <<"+", "0", "9", "3", "0">>,
    <<"+", "0", "9", "-", "3", "0">>,
    <<"+", "0", "9", ":", "3", "x">>,
    <<"+", "0", "9", ":", "3", "0", "0">>,
    <<" ", "+", "0", "9", ":", "3", "0">>,
    <<"*", "0", "9", ":", "3", "0">> }

TzOverrides ==
  {null, Some(<<>>), Some(AsiaShanghai)}
    \cup { Some(s) : s \in OffsetStrings \cup OtherStrings }

InitTimezone ==
  \E tz \in TzOverrides : Idle([EmptyOptions EXCEPT !.tzOverride = tz])

CallParseTimezoneOffset ==
  /\ pc = "ready"
  /\ Return("parseTimezoneOffset", ParseTimezoneOffset(options.tzOverride))

NextTimezone == CallParseTimezoneOffset

SpecTimezone == InitTimezone /\ [][NextTimezone]_vars

(***************************************************************************)
(* Claims on parseTimezoneOffset.                                          *)
(***************************************************************************)
DecimalValue ==
  [c \in {"0", "1", "2", "3", "4", "5", "6", "7", "8", "9"} |->
     CASE c = "0" -> 0 [] c = "1" -> 1 [] c = "2" -> 2 [] c = "3" -> 3
       [] c = "4" -> 4 [] c = "5" -> 5 [] c = "6" -> 6 [] c = "7" -> 7
       [] c = "8" -> 8 [] c = "9" -> 9]

\* The string has the form +HH:MM or -HH:MM.
HasOffsetForm(s) ==
  /\ Len(s) = 6
  /\ s[1] \in {"+", "-"}
  /\ s[4] = ":"
  /\ \A i \in {2, 3, 5, 6} : s[i] \in DOMAIN DecimalValue

MinutesOf(s) ==
  60 * (10 * DecimalValue[s[2]] + DecimalValue[s[3]])
    + 10 * DecimalValue[s[5]] + DecimalValue[s[6]]

\* C22: parseTimezoneOffset maps +HH:MM to 60*HH+MM and -HH:MM to
\* -(60*HH+MM) minutes, "Asia/Shanghai" to 480, and an absent, an empty and
\* every other string to 0, without raising.
C22_ParseTimezoneOffset ==
  (pc # "ready" /\ ret.fn = "parseTimezoneOffset") =>
    /\ pc = "done"
    /\ LET tz == options.tzOverride
       IN IF tz = null \/ tz = Some(<<>>) THEN ret.value = 0
          ELSE IF HasOffsetForm(tz[1])
            THEN ret.value = (IF tz[1][1] = "+" THEN MinutesOf(tz[1])
                              ELSE 0 - MinutesOf(tz[1]))
          ELSE IF tz[1] = <<"A", "s", "i", "a", "/", "S", "h", "a", "n", "g", "h", "a", "i">>
            THEN ret.value = 480
          ELSE ret.value = 0

\* The override "-09:59" resolves to -599 minutes.
C22_Witness ==
  /\ Returned("parseTimezoneOffset")
  /\ options.tzOverride = Some(<<"-", "0", "9", ":", "5", "9">>)
  /\ ret.value = -599

(***************************************************************************)
(* Claims on the metrics carried by the Profile of analyzeAll.             *)
(***************************************************************************)
\* C23: the Profile of analyzeAll carries every metric of the data model: for
\* every input it holds grit_factor, equal to computeGritFactor(repos, login),
\* and contribution_momentum, equal to
\* computeContributionMomentum(contributions), alongside fork_destiny,
\* community_engagement and tags.
C23_ProfileCarriesEveryMetric ==
  Returned("analyzeAll") =>
    LET p == ret.value.profile
    IN /\ {"fork_destiny", "community_engagement", "tags"} \subseteq DOMAIN p
       /\ p.fork_destiny = ComputeForkDestiny(options.repos, options.commits, options.login)
       /\ p.community_engagement = ComputeCommunityEngagement(options.contributions)
       /\ "grit_factor" \in DOMAIN p
       /\ p.grit_factor = ComputeGritFactor(options.repos, options.login)
       /\ "contribution_momentum" \in DOMAIN p
       /\ p.contribution_momentum = ComputeContributionMomentum(options.contributions)

(***************************************************************************)
(* The statements of analyzeAll as steps that a scheduler may take in any  *)
(* order once the timezone offset is resolved.  ret.value holds the local  *)
(* constants assigned so far, null for one not yet assigned.  A statement  *)
(* that reads a constant before its assignment throws a ReferenceError.    *)
(***************************************************************************)
NoLocals ==
  [langWeights |-> null, hoursHistogram |-> null, coreHours |-> null,
   uoi |-> null, externalRate |-> null, uniIndex |-> null, night |-> null,
   focus |-> null, forkDestiny |-> null, communityEngagement |-> null,
   tags |-> null, readme |-> null, consistency |-> null]

ReferenceError(v) == [error |-> "ReferenceError", locals |-> v]

Locals == ret.value

\* const tags = computeProfileTags(forkDestiny, communityEngagement)
TagsStep_DefaultsForMissing(v) ==
  LET fork == IF v.forkDestiny = null THEN ComputeForkDestiny(<<>>, null, "")
              ELSE v.forkDestiny[1]
      community == IF v.communityEngagement = null THEN ComputeCommunityEngagement(null)
                   ELSE v.communityEngagement[1]
  IN [v EXCEPT !.tags = Some(ComputeProfileTags(fork, community))]

TagsStep(v) ==
  IF v.forkDestiny = null \/ v.communityEngagement = null
    THEN ReferenceError(v)
    ELSE [v EXCEPT !.tags =
            Some(ComputeProfileTags(v.forkDestiny[1], v.communityEngagement[1]))]

\* const consistency = computeReadmeConsistency(readme, langWeights, login, repos)
ConsistencyStep(v, o) ==
  IF v.readme = null \/ v.langWeights = null
    THEN ReferenceError(v)
    ELSE [v EXCEPT !.consistency =
            Some(ComputeReadmeConsistency(v.readme[1], v.langWeights[1], o.login, o.repos))]

Assign(v) ==
  /\ ret' = [fn |-> "analyzeAll", value |-> v]
  /\ UNCHANGED <<options, tzOffsetMinutes, hist, includeOrgRepos, pc>>

AssignOrThrow(fn, v) ==
  IF Threw(v) THEN Raise(fn, v) ELSE Assign(v)

OrchestrateOptions ==
  { [login |-> "self", repos |-> rs, prs |-> ps, commits |-> cms,
     contributions |-> x.contributions, tzOverride |-> x.tzOverride,
     profileReadmeMarkdown |-> x.profileReadmeMarkdown, userInfo |-> x.userInfo] :
      rs \in {<<>>} \cup {<<a, e>> : a \in {r \in AllRepos : r.name = "a"},
                                    e \in {r \in AllRepos : r.name = "e"}},
      ps \in {<<>>} \cup {<<p, q>> : p \in AllPrs, q \in {r \in AllPrs : r.mergedAt = null}},
      cms \in {null} \cup {Some(<<c>>) : c \in {d \in AllCommits : d.repo.name = "e"}},
      x \in AllExtras }

InitOrchestrate ==
  \E o \in OrchestrateOptions :
    /\ Idle(o)

ResolveTimezone ==
  /\ pc = "ready"
  /\ pc' = "evaluating"
  /\ tzOffsetMinutes' = ParseTimezoneOffset(options.tzOverride)
  /\ ret' = [fn |-> "analyzeAll", value |-> NoLocals]
  /\ UNCHANGED <<options, hist, includeOrgRepos>>

EvalLanguageWeights ==
  /\ pc = "evaluating" /\ Locals.langWeights = null
  /\ Assign([Locals EXCEPT !.langWeights = Some(ComputeLanguageWeights(options.repos))])

EvalHours ==
  /\ pc = "evaluating" /\ Locals.hoursHistogram = null
  /\ LET hoursHistogram == ComputeHoursHistogram(options.prs, tzOffsetMinutes)
     IN Assign([Locals EXCEPT !.hoursHistogram = Some(hoursHistogram),
                              !.coreHours = Some(ComputeCoreHours(hoursHistogram))])

EvalRatios ==
  /\ pc = "evaluating" /\ Locals.uoi = null
  /\ Assign([Locals EXCEPT
       !.uoi = Some(ComputeUoi(options.prs, options.login)),
       !.externalRate = Some(ComputeExternalPrAcceptRate(options.prs, options.login)),
       !.uniIndex = Some(ComputeUniIndexV0(options.prs, options.commits, options.login,
                                           options.userInfo, TRUE)),
       !.night = Some(ComputeNightRatio(options.commits, tzOffsetMinutes)),
       !.focus = Some(ComputeFocusRatio(options.repos))])

EvalForkDestiny ==
  /\ pc = "evaluating" /\ Locals.forkDestiny = null
  /\ Assign([Locals EXCEPT !.forkDestiny =
       Some(ComputeForkDestiny(options.repos, options.commits, options.login))])

EvalCommunityEngagement ==
  /\ pc = "evaluating" /\ Locals.communityEngagement = null
  /\ Assign([Locals EXCEPT !.communityEngagement =
       Some(ComputeCommunityEngagement(options.contributions))])

EvalTags ==
  /\ pc = "evaluating" /\ Locals.tags = null
  /\ AssignOrThrow("computeProfileTags", TagsStep(Locals))

EvalReadme ==
  /\ pc = "evaluating" /\ Locals.readme = null
  /\ Assign([Locals EXCEPT !.readme = Some(AnalyzeProfileReadme(options.profileReadmeMarkdown))])

EvalConsistency ==
  /\ pc = "evaluating" /\ Locals.consistency = null
  /\ AssignOrThrow("computeReadmeConsistency", ConsistencyStep(Locals, options))

\* timezone, summary, data_coverage and the return statement.
Assemble ==
  /\ pc = "evaluating"
  /\ \A f \in DOMAIN Locals : Locals[f] # null
  /\ Return("analyzeAll",
       AssembleProfile(options,
         [f \in DOMAIN Locals |-> Locals[f][1]]
           @@ [timezone |-> BuildTimezone(options.tzOverride, tzOffsetMinutes),
               summary |-> BuildSummaryEvidence(options.login, options.repos,
                                                options.prs)]))

NextOrchestrate ==
  \/ ResolveTimezone
  \/ EvalLanguageWeights
  \/ EvalHours
  \/ EvalRatios
  \/ EvalForkDestiny
  \/ EvalCommunityEngagement
  \/ EvalTags
  \/ EvalReadme
  \/ EvalConsistency
  \/ Assemble

SpecOrchestrate == InitOrchestrate /\ [][NextOrchestrate]_vars

(***************************************************************************)
(* Claims on the order of evaluation in analyzeAll.                        *)
(***************************************************************************)
SameProfile == pc = "done" => ret.value = AnalyzeAll(options)

InitOrgFlag ==
  \E ps \in SeqsUpTo(UniPrs, MaxPrs),
     cms \in {null} \cup {Some(<<c>>) : c \in UniCommits},
     info \in UniUserInfos, inclOrg \in BOOLEAN :
    /\ options = [EmptyOptions EXCEPT !.prs = ps, !.commits = cms, !.userInfo = info]
    /\ tzOffsetMinutes = 0
    /\ hist = NoHist
    /\ includeOrgRepos = inclOrg
    /\ pc = "ready"
    /\ ret = NoRet

NextOrgFlag == CallComputeUniIndexV0 \/ CallAnalyzeAll

SpecOrgFlag == InitOrgFlag /\ [][NextOrgFlag]_vars

(***************************************************************************)
(* Claims on the organization flag.                                        *)
(***************************************************************************)
\* The uni_index u scores the PRs to the subject's organizations as owned
\* (inclOrg) or as external (~inclOrg), and reports inclOrg.
UniIndexWith(u, inclOrg) ==
  LET cs == OrEmpty(options.commits)
      ownedPrs == OwnedSidePrs(options.prs, options.login, options.userInfo, inclOrg)
      owned == Cardinality({i \in 1..Len(cs) : cs[i].repo.isOwn})
                 + SumScores(options.prs, ownedPrs)
      external == SumScores(options.prs, (1..Len(options.prs)) \ ownedPrs)
  IN /\ u.include_org_repos = inclOrg
     /\ IF owned + external = 0 THEN u.value = null
        ELSE u.value # null /\ RatEq(u.value, <<owned, owned + external>>)

\* C25: the Orchestrator accepts a flag that decides whether the repositories
\* of the subject's organizations count as owned in the Uni Index: with the
\* flag off the PRs to them are scored as external and
\* uni_index.include_org_repos is false, with it on they are scored as owned
\* and it is true.
C25_OrchestratorOrgFlag ==
  Returned("analyzeAll") =>
    UniIndexWith(ret.value.profile.uni_index, includeOrgRepos)

\* C25, amended: computeUniIndexV0 takes the flag and scores and reports
\* accordingly; the Orchestrator takes no such flag: analyzeAll always has the
\* organizations' repositories counted as owned and reports
\* include_org_repos true.
C25_OrgFlagOfUniIndexOnly ==
  /\ Returned("computeUniIndexV0") => UniIndexWith(ret.value, includeOrgRepos)
  /\ Returned("analyzeAll") => UniIndexWith(ret.value.profile.uni_index, TRUE)

\* analyzeAll ran for a caller who wants organizations left out, on a PR to a
\* repository of the subject's organization.
C25_Witness ==
  /\ Returned("analyzeAll")
  /\ ~includeOrgRepos
  /\ options.userInfo # null
  /\ \E i \in 1..Len(options.prs) :
       /\ options.prs[i].repository.owner.login = "Org"
       /\ i \in OwnedSidePrs(options.prs, options.login, options.userInfo, TRUE)
  /\ ret.value.profile.uni_index.include_org_repos

(***************************************************************************)
(* computeHoursHistogram, computeNightRatio and computeGritFactor called   *)
(* on records some of whose timestamps cannot be parsed.                   *)
(***************************************************************************)
StampRepos ==
  {Repo("self", "r", FALSE, stars, null, <<>>, <<>>, createdAt, pushedAt) :
     stars \in {0, THRESHOLD_GEM_STARS},
     createdAt \in {At(1, 0, 0), BadTimestamp},
     pushedAt \in {null, Some(At(91, 0, 0)), Some(BadTimestamp)}}

InitTimestamps ==
  \/ InitTime
  \/ \E rs \in SeqsUpTo(StampRepos, MaxRepos) : Idle([EmptyOptions EXCEPT !.repos = rs])

NextTimestamps ==
  \/ CallComputeHoursHistogram
  \/ CallComputeNightRatio
  \/ CallComputeGritFactor

SpecTimestamps == InitTimestamps /\ [][NextTimestamps]_vars

(***************************************************************************)
(* Claims on unparseable timestamps.                                       *)
(***************************************************************************)
Parseable(t) == t # BadTimestamp

\* The timestamps computeGritFactor reads of a repository: createdAt, and
\* pushedAt or createdAt again where there is no pushedAt.
GritStampsParseable(repo) ==
  /\ Parseable(repo.createdAt)
  /\ repo.pushedAt # null => Parseable(repo.pushedAt[1])

ParseablePrs == {i \in 1..Len(options.prs) : Parseable(options.prs[i].createdAt)}

ParseableCommits ==
  LET cs == OrEmpty(options.commits)
  IN {i \in 1..Len(cs) : ~cs[i].isMerge /\ Parseable(cs[i].authoredAt)}

OwnRepos ==
  {i \in 1..Len(options.repos) :
     /\ ~options.repos[i].isFork
     /\ SameLogin(options.repos[i].owner.login, options.login)}

\* The records with an unparseable timestamp are no part of the sample of the
\* hours histogram and of the Night Ratio, and the others all are.
SkippedByHoursAndNight ==
  /\ Returned("computeHoursHistogram") =>
       HistTotal(ret.value, 0) = Cardinality(ParseablePrs)
  /\ Returned("computeNightRatio") =>
       ret.value.sample_size = Cardinality(ParseableCommits)

\* C26: a record whose timestamp cannot be parsed is left out of the sample of
\* every metric that reads the timestamp (PR createdAt for the hours
\* histogram, commit authoredAt for the Night Ratio, repository createdAt and
\* pushedAt for the Grit Factor), the remaining records are still counted, and
\* no computation aborts.
C26_UnparseableLeftOut ==
  /\ pc # "raised"
  /\ SkippedByHoursAndNight
  /\ Returned("computeGritFactor") =>
       ret.value.sample_size =
         Cardinality({i \in OwnRepos : GritStampsParseable(options.repos[i])})

\* C26, amended: the hours histogram and the Night Ratio leave such a record
\* out and count the others; the Grit Factor keeps such a repository in its
\* sample with a life span of 0 days, so it is no long-term project and is a
\* gem or churn by its stars; no computation aborts.
C26_UnparseableSkippedOrZeroSpan ==
  /\ pc # "raised"
  /\ SkippedByHoursAndNight
  /\ Returned("computeGritFactor") =>
       LET bad == {i \in OwnRepos : ~GritStampsParseable(options.repos[i])}
           badGems == {i \in bad : options.repos[i].stargazerCount >= THRESHOLD_GEM_STARS}
           good == SelectSeq(options.repos, LAMBDA repo :
                     /\ ~repo.isFork
                     /\ SameLogin(repo.owner.login, options.login)
                     /\ GritStampsParseable(repo))
           rest == ComputeGritFactor(good, options.login)
       IN /\ ret.value.sample_size = Cardinality(OwnRepos)
          /\ ret.value.long_term_count = rest.long_term_count
          /\ ret.value.gem_count = rest.gem_count + Cardinality(badGems)
          /\ ret.value.churn_count = rest.churn_count + Cardinality(bad \ badGems)

\* computeGritFactor ran on a repository it can date next to a starred one
\* whose pushedAt cannot be parsed.
C26_Witness ==
  /\ Returned("computeGritFactor")
  /\ \E i, j \in OwnRepos :
       /\ GritStampsParseable(options.repos[i])
       /\ ~GritStampsParseable(options.repos[j])
       /\ options.repos[j].stargazerCount >= THRESHOLD_GEM_STARS
  /\ ret.value.sample_size = 2
  /\ ret.value.gem_count >= 1

(***************************************************************************)
(* computeReadmeConsistency on a text with links to repositories and on a  *)
(* repository list, the owners and names differing in case.                *)
(***************************************************************************)
MaxUrls == 2

RepoUrl(owner, name) == [owner |-> owner, name |-> name]

RepoUrls == {RepoUrl(o, n) : o \in {"Self", "other"}, n \in {"lib", "Lib", "org"}}

\* A line of text with links.
LinkLine(urls) ==
  [chars |-> 30, langs |-> {}, eco |-> FALSE, topics |-> {},
   mdImages |-> <<>>, htmlImages |-> <<>>, repoUrls |-> urls, markup |-> FALSE]

DataRepos ==
  {Repo(o, n, FALSE, 0, null, <<>>, <<>>, At(1, 0, 0), null) :
     o \in {"SELF", "other"}, n \in {"Lib", "org"}}

InitOwnedRepos ==
  \E urls \in SeqsUpTo(RepoUrls, MaxUrls), rs \in SeqsUpTo(DataRepos, MaxRepos),
     lg \in {"self", "Self"} :
    Idle([readme |-> AnalyzeProfileReadme(Some(<<LinkLine(urls)>>)),
          skills |-> <<>>, login |-> lg, repos |-> rs])

NextOwnedRepos == CallComputeReadmeConsistency

SpecOwnedRepos == InitOwnedRepos /\ [][NextOwnedRepos]_vars

(***************************************************************************)
(* Claims on the owned repositories a text mentions.                       *)
(***************************************************************************)
\* The repository name of a mention "<owner>/<name>".
MentionedName(full) ==
  CASE full = "self/lib" -> "lib"
    [] full = "self/org" -> "org"

NameClasses == {{"lib", "Lib"}, {"org"}}

SameName(a, b) == \E c \in NameClasses : a \in c /\ b \in c

\* The repository list holds a repository of the login under the name.
InData(name) ==
  \E i \in 1..Len(options.repos) :
    /\ SameLogin(options.repos[i].owner.login, options.login)
    /\ SameName(options.repos[i].name, name)

\* C28: owned_repos_found_in_data and owned_repos_missing_in_data are
\* disjoint and together equal owned_repos_mentioned; a mentioned repository
\* is found exactly when the repository list holds a repository whose owner
\* is the login and whose name is the mentioned name, both up to case.
C28_OwnedReposPartition ==
  Returned("computeReadmeConsistency") =>
    LET r == ret.value
        found == Range(r.owned_repos_found_in_data)
        missing == Range(r.owned_repos_missing_in_data)
    IN /\ found \cap missing = {}
       /\ found \cup missing = Range(r.owned_repos_mentioned)
       /\ Len(r.owned_repos_found_in_data) + Len(r.owned_repos_missing_in_data)
            = Len(r.owned_repos_mentioned)
       /\ \A m \in Range(r.owned_repos_mentioned) :
            m \in found <=> InData(MentionedName(m))

\* The text links Self/lib and self/org, the data hold SELF/Lib only: the
\* first is found, the second missing.
C28_Witness ==
  /\ Returned("computeReadmeConsistency")
  /\ options.login = "self"
  /\ \E i \in 1..Len(options.repos) :
       options.repos[i].owner.login = "SELF" /\ options.repos[i].name = "Lib"
  /\ ret.value.owned_repos_mentioned = <<"self/lib", "self/org">>
  /\ ret.value.owned_repos_found_in_data = <<"self/lib">>
  /\ ret.value.owned_repos_missing_in_data = <<"self/org">>

(***************************************************************************)
(* analyzeAll's parseTimezoneOffset(tzOverride) followed by                *)
(* computeHoursHistogram(prs, tzOffsetMinutes), on offsets up to 99:59     *)
(* either side of UTC.                                                     *)
(***************************************************************************)
\* The offset strings of whole hours and of 59 minutes past them.
HourEdgeStrings ==
  {s \in OffsetStrings : <<s[5], s[6]>> \in {<<"0", "0">>, <<"5", "9">>}}

InitOffsetHours ==
  \E tz \in {null} \cup {Some(s) : s \in HourEdgeStrings},
     ps \in SeqsUpTo(TimePrs, MaxPrs) :
    /\ options = [EmptyOptions EXCEPT !.tzOverride = tz, !.prs = ps]
    /\ tzOffsetMinutes = 0
    /\ hist = NoHist
    /\ includeOrgRepos = TRUE
    /\ pc = "start"
    /\ ret = NoRet

\* const tzOffsetMinutes = parseTimezoneOffset(tzOverride)
ResolveOffset ==
  /\ pc = "start"
  /\ tzOffsetMinutes' = ParseTimezoneOffset(options.tzOverride)
  /\ pc' = "ready"
  /\ UNCHANGED <<options, hist, includeOrgRepos, ret>>

NextOffsetHours ==
  \/ ResolveOffset
  \/ CallComputeHoursHistogram

SpecOffsetHours == InitOffsetHours /\ [][NextOffsetHours]_vars

\* C29: for every offset parseTimezoneOffset returns for a +HH:MM or -HH:MM
\* string and every pull-request list, computeHoursHistogram returns exactly
\* 24 bins whose counts add up to the number of PRs with a parseable
\* createdAt: no event is lost or counted outside bins 0..23.
C29_EveryEventInABin ==
  Returned("computeHoursHistogram") =>
    /\ DOMAIN ret.value = 0..23
    /\ SumOver([h \in 0..23 |-> IF ret.value[h] = null THEN 0 ELSE ret.value[h][1]],
               0..23)
         = Cardinality({i \in 1..Len(options.prs) :
                          options.prs[i].createdAt # BadTimestamp})

====
